---- MODULE Spec2Model ----
(***************************************************************************)
(* State-machine model of the adaptiveMFA.ai backend: the Session and      *)
(* LoginEvent entities, the session-revocation endpoints, the risk         *)
(* feedback endpoint, the account-settings endpoints and the adaptive MFA  *)
(* decision engine (assessment wrapper and response router).               *)
(*                                                                         *)
(* Time is an integer clock.  Risk scores are integers in units of 1/10000 *)
(* (0.35 is 3500); deviations and anomaly scores are in units of 1/100.    *)
(***************************************************************************)
EXTENDS Integers, Sequences, FiniteSets, TLC

\* ---------------------------------------------------------------- bounds
NumUsers == 2
MaxTime == 2
MaxSessions == 2
MaxLifecycleSessions == 1
MaxCallers == 1
MaxEvents == 2
MaxDashboardRows == 21

Users == 1..NumUsers
Fingerprints == {"fpA", "fpB"}
Passwords == {"pw1", "pw2"}
\* NULL of a nullable DateTime column
None == -1
\* absent token / unknown user id / unknown row id
NoToken == 0
NoUser == 0

\* ------------------------------------------------------------- constants
\* settings.RISK_THRESHOLD_LOW / RISK_THRESHOLD_HIGH (example configuration)
RISK_THRESHOLD_LOW == 3000
RISK_THRESHOLD_HIGH == 7000
\* lifetime of an issued token, in clock ticks
TokenTTL == 1

VARIABLES
    now,        \* datetime.now(timezone.utc)
    users,      \* users table: id -> row
    sessions,   \* sessions table: sequence of rows, id = jti = index
    events,     \* login_events table: sequence of rows, id = index
    riskData,   \* last result of RiskAssessmentService.assess_login
    assessment, \* last result of RiskBasedAdaptiveMFA.assess_login
    resp,       \* last HTTP response / return value
    scoring,    \* last call of a scoring function: arguments and result
    anomaly,    \* the AnomalyService instance and its model files
    wf,         \* the run of LangGraphWorkflow.invoke in progress
    geo_cache,  \* risk_service._geo_cache: ip -> (location, expiry)
    geo_calls,  \* the resolve_ip_location calls in progress, one per thread
    pinecone,   \* the PineconeClient being constructed or in use
    dbscope     \* one use of the get_db dependency

svcVars == <<scoring, anomaly, wf, geo_cache, geo_calls, pinecone, dbscope>>
appVars == <<now, users, sessions, events, riskData, assessment, resp>>
vars == <<now, users, sessions, events, riskData, assessment, resp,
          scoring, anomaly, wf, geo_cache, geo_calls, pinecone, dbscope>>

\* ------------------------------------------------ models/session.py
SessionStatus == {"active", "expired", "revoked", "invalidated"}

\* Session.is_expired
is_expired(s, t) == t > s.expires_at

\* is_valid without the expiry check
is_valid_no_expiry(s, t) == s.is_active /\ s.status = "active"

\* Session.is_valid
is_valid(s, t) ==
    /\ s.is_active
    /\ ~is_expired(s, t)
    /\ s.status = "active"

\* Session.revoke
revoke(s, t) ==
    [s EXCEPT !.is_active = FALSE, !.status = "revoked", !.revoked_at = t]

\* Session.invalidate
invalidate(s, t) ==
    [s EXCEPT !.is_active = FALSE, !.status = "invalidated", !.revoked_at = t]

\* Session.refresh_activity
refresh_activity(s, t) == [s EXCEPT !.last_activity_at = t]

\* Session(...) row as persisted by AuthService.create_session: column
\* defaults is_active=True, status=ACTIVE, revoked_at NULL.
NewSession(jti, u, ttype, fp, t) ==
    [user_id |-> u, jti |-> jti, token_type |-> ttype,
     is_active |-> TRUE, status |-> "active",
     device_fingerprint |-> fp,
     expires_at |-> t + TokenTTL, revoked_at |-> None,
     last_activity_at |-> t]

\* ------------------------------------------------ models/login_event.py
LoginOutcome == {"pending", "approved", "denied", "mfa_required"}

\* LoginEvent(id=uuid4(), **kwargs) row.  has_coords stands for the location
\* columns (location_latitude and location_longitude both set); the
\* free-text, behavioural-metric and explanation columns are written once
\* here and are not read by any modelled operation.
NewLoginEvent(u, fp, known, action, coords) ==
    [user_id |-> u, device_fingerprint |-> fp, device_known |-> known,
     user_action |-> action, has_coords |-> coords]

\* ------------------------------------------------ services/auth_service.py
\* AuthService.get_current_user: decode -> load session by jti -> check
\* validity -> load user.  A token is identified with its jti.
get_current_user(token) ==
    IF /\ token \in 1..Len(sessions)
       /\ sessions[token].token_type = "access"
       /\ is_valid(sessions[token], now)
    THEN sessions[token].user_id
    ELSE NoUser

\* AuthService.verify_token(token, "access"): the payload's jti, or None
verify_token_jti(token) ==
    IF /\ token \in 1..Len(sessions)
       /\ sessions[token].token_type = "access"
       /\ ~is_expired(sessions[token], now)
    THEN token
    ELSE NoToken

\* AuthService.hash_password / verify_password: one-way salted hash
hash_password(p) == <<"hash", p>>
verify_password(p, h) == h = <<"hash", p>>

\* ------------------------------------------------------------- responses
\* The last request and its response: op, the presented token and the
\* request arguments (id, fingerprint, action, args: the fields of the
\* request body), then the status code and the body fields
NoResp ==
    [op |-> "none", token |-> NoToken, id |-> 0, fp |-> "", action |-> "",
     args |-> <<>>, status |-> 0, user |-> NoUser,
     access_token |-> NoToken, refresh_token |-> NoToken,
     mfa_token |-> NoToken, mfa_required |-> FALSE, blocked |-> FALSE,
     count |-> 0]

Response(op, token, status, u) ==
    [NoResp EXCEPT !.op = op, !.token = token, !.status = status, !.user = u]

\* ------------------------------------------------ services/risk_service.py
Min(a, b) == IF a < b THEN a ELSE b

\* DeviceFingerprintService.is_device_known
is_device_known(u, fp) ==
    \E i \in 1..Len(events) :
        /\ events[i].user_id = u
        /\ events[i].device_fingerprint = fp
        /\ events[i].user_action = "approved"

\* _combine_signals with a device factor of 0.25 for an unknown device
_combine_signals_weak_device(device_known, deviation, ml_score, location_metric) ==
    LET device_factor == IF device_known THEN 0 ELSE 2500
        behavior_factor == Min(deviation, 100) * 28
        ml_factor == Min(ml_score, 100) * 27
        location_factor == IF location_metric > 900 THEN 1000
                           ELSE IF location_metric > 200 THEN 200
                           ELSE 0
    IN  Min(10000, device_factor + behavior_factor + ml_factor + location_factor)

\* _combine_signals with the location thresholds taken inclusively
_combine_signals_inclusive(device_known, deviation, ml_score, location_metric) ==
    LET device_factor == IF device_known THEN 0 ELSE 3500
        behavior_factor == Min(deviation, 100) * 28
        ml_factor == Min(ml_score, 100) * 27
        location_factor == IF location_metric >= 900 THEN 1000
                           ELSE IF location_metric >= 200 THEN 200
                           ELSE 0
    IN  Min(10000, device_factor + behavior_factor + ml_factor + location_factor)

\* RiskAssessmentService._combine_signals (deviation, ml_score in 1/100,
\* location_metric in km/h, result in 1/10000)
_combine_signals(device_known, deviation, ml_score, location_metric) ==
    LET device_factor == IF device_known THEN 0 ELSE 3500
        behavior_factor == Min(deviation, 100) * 28
        ml_factor == Min(ml_score, 100) * 27
        location_factor == IF location_metric > 900 THEN 1000
                           ELSE IF location_metric > 200 THEN 200
                           ELSE 0
    IN  Min(10000, device_factor + behavior_factor + ml_factor + location_factor)

\* RiskAssessmentService._map_deviation_to_risk
_map_deviation_to_risk(deviation) ==
    IF deviation < 20 THEN "low"
    ELSE IF deviation < 50 THEN "medium"
    ELSE "high"

\* _map_score_to_level with the low threshold taken inclusively
_map_score_to_level_inclusive(score) ==
    IF score <= RISK_THRESHOLD_LOW THEN "low"
    ELSE IF score < RISK_THRESHOLD_HIGH THEN "medium"
    ELSE "high"

\* RiskAssessmentService._map_score_to_level
_map_score_to_level(score) ==
    IF score < RISK_THRESHOLD_LOW THEN "low"
    ELSE IF score < RISK_THRESHOLD_HIGH THEN "medium"
    ELSE "high"

\* a default that classifies the failed assessment as low risk
RiskErrorResponseLow ==
    [kind |-> "error", risk_score |-> 1000, risk_level |-> "low",
     anomaly_score |-> 50, behavior_risk |-> "medium",
     device_fingerprint |-> "None", device_known |-> FALSE,
     location_metric |-> 0, mfa_required |-> FALSE]

\* RiskAssessmentService._error_response
RiskErrorResponse ==
    [kind |-> "error", risk_score |-> 5000, risk_level |-> "medium",
     anomaly_score |-> 50, behavior_risk |-> "medium",
     device_fingerprint |-> "None", device_known |-> FALSE,
     location_metric |-> 0, mfa_required |-> TRUE]

\* The query for the previous login from the same device (offset(1) skips
\* the most recent row) finds a row with coordinates.
last_login_has_coords(u, fp) ==
    LET rows == {i \in 1..Len(events) :
                    /\ events[i].user_id = u
                    /\ events[i].device_fingerprint = fp}
    IN  /\ Cardinality(rows) >= 2
        /\ LET newest == CHOOSE i \in rows : \A j \in rows : j <= i
               second == CHOOSE i \in rows \ {newest} :
                            \A j \in rows \ {newest} : j <= i
           IN  events[second].has_coords

\* RiskAssessmentService.assess_login.  ev is the login_event dict:
\* device_fingerprint ("" when absent), deviation (the result of
\* calculate_behavior_deviation), ml_score (the result of _ml_risk_score),
\* has_coords and speed (distance / elapsed hours of the geodesic lookup).
\* fails = an exception is raised inside the try block.
RiskAssess(ev, u, fails) ==
    IF fails THEN RiskErrorResponse
    ELSE
    LET device_fingerprint ==
            IF ev.device_fingerprint = "" THEN "unknown"
            ELSE ev.device_fingerprint
        device_known == is_device_known(u, device_fingerprint)
        behavior_risk == _map_deviation_to_risk(ev.deviation)
        location_metric ==
            IF last_login_has_coords(u, device_fingerprint) /\ ev.has_coords
            THEN ev.speed ELSE 0
        risk_score == _combine_signals(device_known, ev.deviation,
                                       ev.ml_score, location_metric)
    IN  [kind |-> "ok", risk_score |-> risk_score,
         risk_level |-> _map_score_to_level(risk_score),
         anomaly_score |-> ev.ml_score, behavior_risk |-> behavior_risk,
         device_fingerprint |-> device_fingerprint,
         device_known |-> device_known,
         location_metric |-> location_metric,
         mfa_required |-> (risk_score > RISK_THRESHOLD_LOW)]

\* ---------------------------------------- services/adaptive_mfa_service.py
\* RiskBasedAdaptiveMFA._error_response
MfaErrorResponse ==
    [kind |-> "error", blocked |-> FALSE, risk_score |-> 5000,
     risk_level |-> "medium", device_fingerprint |-> "None",
     device_known |-> FALSE, behavior_risk |-> "medium",
     mfa_methods_required |-> <<"totp">>, mfa_required |-> TRUE]

\* the MFA decision with the block threshold at 0.85
MfaAssessBlockEarly(risk_data, user) ==
    LET mfa_methods ==
            IF user.mfa_enabled /\ risk_data.risk_score > 3000
            THEN <<"totp">> ELSE <<>>
        blocked == /\ risk_data.risk_score > 8500
                   /\ ~risk_data.device_known
                   /\ risk_data.behavior_risk = "high"
    IN  [kind |-> "ok", blocked |-> blocked,
         risk_score |-> risk_data.risk_score,
         risk_level |-> risk_data.risk_level,
         device_fingerprint |-> risk_data.device_fingerprint,
         device_known |-> risk_data.device_known,
         behavior_risk |-> risk_data.behavior_risk,
         mfa_methods_required |-> mfa_methods,
         mfa_required |-> (mfa_methods # <<>>)]

\* the MFA decision with >= in place of > 0.3
MfaAssessInclusive(risk_data, user) ==
    LET mfa_methods ==
            IF user.mfa_enabled /\ risk_data.risk_score >= 3000
            THEN <<"totp">> ELSE <<>>
    IN  [kind |-> "ok", blocked |-> FALSE,
         risk_score |-> risk_data.risk_score,
         risk_level |-> risk_data.risk_level,
         device_fingerprint |-> risk_data.device_fingerprint,
         device_known |-> risk_data.device_known,
         behavior_risk |-> risk_data.behavior_risk,
         mfa_methods_required |-> mfa_methods,
         mfa_required |-> (mfa_methods # <<>>)]

\* RiskBasedAdaptiveMFA.assess_login, after the user row has been loaded
\* and the risk service has returned risk_data
MfaAssess(risk_data, user) ==
    LET mfa_methods ==
            IF user.mfa_enabled /\ risk_data.risk_score > 3000
            THEN <<"totp">> ELSE <<>>
        blocked == /\ risk_data.risk_score > 9500
                   /\ ~risk_data.device_known
                   /\ risk_data.behavior_risk = "high"
    IN  [kind |-> "ok", blocked |-> blocked,
         risk_score |-> risk_data.risk_score,
         risk_level |-> risk_data.risk_level,
         device_fingerprint |-> risk_data.device_fingerprint,
         device_known |-> risk_data.device_known,
         behavior_risk |-> risk_data.behavior_risk,
         mfa_methods_required |-> mfa_methods,
         mfa_required |-> (mfa_methods # <<>>)]

\* the branch condition without the MFA-enabled test
IssuesTokensDirectlyOnLowRisk(risk_assessment, user) ==
    risk_assessment.risk_level = "low"

\* AdaptiveMFARouter.get_login_response: the branch condition
IssuesTokensDirectly(risk_assessment, user) ==
    risk_assessment.risk_level = "low" /\ user.mfa_enabled = FALSE

\* ------------------------------------------------------------ input sets
Deviations == {0, 30, 100, 150}
MlScores == {0, 100}
\* current coordinates present or not, and the speed the geodesic lookup gives
LocationInputs == {<<TRUE, 0>>, <<TRUE, 500>>, <<TRUE, 1000>>, <<FALSE, 1000>>}
LoginInputs ==
    {[device_fingerprint |-> fp, deviation |-> d, ml_score |-> m,
      has_coords |-> loc[1], speed |-> loc[2]] :
        fp \in Fingerprints \cup {""}, d \in Deviations, m \in MlScores,
        loc \in LocationInputs}
AnyLoginInput == CHOOSE ev \in LoginInputs : TRUE
FeedbackActions == {"approved", "blocked", "compromised", "denied", "bogus"}
Channels == {"cookie", "header"}

\* ----------------------------------------------- scoring function calls
\* argument values: deviation and ml_score in 1/100, speed in km/h, score in
\* 1/10000
SignalValues == {0, 25, 50, 100, 150}
Speeds == {0, 100, 200, 201, 900, 901, 1000, 2000}
Scores == {0, 2000, 2999, 3000, 5000, 6999, 7000, 9000, 10000}

Max(a, b) == IF a > b THEN a ELSE b

\* RiskAssessmentService.calculate_risk_score(anomaly_score, rag_score):
\* both arguments in 1/100, None for an absent rag_score, result in 1/10000
calculate_risk_score(anomaly_score, rag_score) ==
    IF rag_score = None
    THEN Max(0, Min(10000, anomaly_score * 100))
    ELSE Max(0, Min(10000, ((anomaly_score + rag_score) * 100) \div 2))

\* RiskAssessmentService.get_risk_level
get_risk_level(risk_score) ==
    IF risk_score < RISK_THRESHOLD_LOW THEN "LOW"
    ELSE IF risk_score < RISK_THRESHOLD_HIGH THEN "MEDIUM"
    ELSE "HIGH"

\* str.upper() on the names of the risk levels
upper(level) ==
    CASE level = "low" -> "LOW"
      [] level = "medium" -> "MEDIUM"
      [] level = "high" -> "HIGH"
      [] OTHER -> level

NoScoring ==
    [op |-> "none", device_known |-> FALSE, deviation |-> 0, ml_score |-> 0,
     location_metric |-> 0, score |-> 0, level |-> "", static_level |-> "",
     was_trained |-> FALSE, raised |-> FALSE, returned |-> FALSE,
     count |-> 0, scores |-> <<>>]

\* ------------------------------------------- services/anomaly_service.py
MaxBatch == 2
\* a model object: None, constructed but not fitted, or fitted; a model
\* file: absent, or holding a dumped model object
ModelStates == {"None", "unfitted", "fitted"}
\* the normalised Isolation Forest score and the Logistic Regression
\* probability of one event, in 1/100
RawScores == {0, 50, 100}
\* the ensemble scores of the events of a batch, in 1/100
BatchScores == {20, 80}

NoAnomalyService ==
    [constructed |-> FALSE, is_trained |-> FALSE,
     iso_forest |-> "None", logistic_reg |-> "None",
     iso_file |-> "absent", lr_file |-> "absent"]

\* AnomalyService.load_models on a new instance a; load_fails names the file
\* whose joblib.load raises ("none": neither)
load_models(a, load_fails) ==
    LET iso_exists == a.iso_file # "absent"
        lr_exists == a.lr_file # "absent"
    IN  IF iso_exists /\ load_fails = "iso"
        THEN [a EXCEPT !.is_trained = FALSE]
        ELSE IF lr_exists /\ load_fails = "lr"
        THEN [a EXCEPT !.is_trained = FALSE,
                       !.iso_forest = IF iso_exists THEN a.iso_file ELSE "None"]
        ELSE IF iso_exists /\ lr_exists
        THEN [a EXCEPT !.is_trained = TRUE,
                       !.iso_forest = a.iso_file,
                       !.logistic_reg = a.lr_file]
        ELSE [a EXCEPT !.is_trained = FALSE,
                       !.iso_forest = "unfitted",
                       !.logistic_reg = "unfitted"]

\* joblib.load raises inside load_models
load_raises(a, load_fails) ==
    \/ a.iso_file # "absent" /\ load_fails = "iso"
    \/ a.lr_file # "absent" /\ load_fails = "lr"

\* a new instance over the model files of a, before load_models
NewAnomalyService(a) ==
    [a EXCEPT !.constructed = TRUE, !.is_trained = FALSE,
              !.iso_forest = "None", !.logistic_reg = "None"]

\* AnomalyService.save_models; save_fails names the joblib.dump that raises
save_models(a, save_fails) ==
    IF a.iso_forest = "None" \/ a.logistic_reg = "None" THEN a
    ELSE IF save_fails = "iso" THEN a
    ELSE IF save_fails = "lr" THEN [a EXCEPT !.iso_file = a.iso_forest]
    ELSE [a EXCEPT !.iso_file = a.iso_forest, !.lr_file = a.logistic_reg]

\* the guard of detect_anomaly with the is_trained test left out
scores_neutral_unless_models(a) ==
    a.iso_forest = "None" \/ a.logistic_reg = "None"

\* the guard of detect_anomaly: the neutral score is returned at once
scores_neutral(a) ==
    ~a.is_trained \/ a.iso_forest = "None" \/ a.logistic_reg = "None"

\* a list of n copies of the neutral score 0.5
NeutralList(n) == [i \in 1..n |-> 50]


\* ----------------------------------------- services/langgraph_service.py
\* the anomaly scores the detector may return, in 1/100
AnomalyScores == {10 * i : i \in 0..10}
\* retrieve_similar_cases(login_event, top_k=3) returns up to top_k cases
TopK == 3

WorkflowNodes ==
    {"detect_anomaly", "score_risk", "retrieve_context", "generate_explanation"}

\* initial_state of LangGraphWorkflow.invoke (similar_cases: the number of
\* cases in the list; explanation: "" or the kind of text)
initial_state ==
    [anomaly_score |-> 0, risk_score |-> 0, should_do_rag |-> FALSE,
     similar_cases |-> 0, explanation |-> "", action_required |-> FALSE,
     recommendation |-> "verify"]

\* the graph applies the dict a node returns as an update of the state: the
\* keys it holds are overwritten, the others keep their values
Merge(state, update) ==
    [k \in DOMAIN state |-> IF k \in DOMAIN update THEN update[k] ELSE state[k]]

\* the dict returned by the try block of invoke
WorkflowResult(state) ==
    [risk_score |-> state.risk_score, anomaly_score |-> state.anomaly_score,
     explanation |-> state.explanation, similar_cases |-> state.similar_cases,
     action_required |-> state.action_required,
     recommendation |-> state.recommendation]

\* the dict returned by the except block of invoke
WorkflowErrorResult ==
    [risk_score |-> 5000, anomaly_score |-> 50, explanation |-> "error",
     similar_cases |-> 0, action_required |-> TRUE,
     recommendation |-> "verify"]

NoWorkflow ==
    [pc |-> "idle", state |-> initial_state, trace |-> <<>>, failed |-> {},
     result |-> WorkflowResult(initial_state)]

\* the number of positional parameters of
\* RiskAssessmentService.calculate_risk_score(anomaly_score, rag_score=None)
\* and the number of positional arguments score_risk_node passes to it
calculate_risk_score_params == 2
score_risk_node_args == 3
\* RiskAssessmentService has no attribute get_recommendation
has_get_recommendation == FALSE

\* the routing function with the comparison reversed
should_do_rag_reversed(state) ==
    IF state.risk_score >= RISK_THRESHOLD_LOW THEN "skip" ELSE "retrieve"

\* LangGraphWorkflow.should_do_rag
should_do_rag(state) ==
    IF state.risk_score < RISK_THRESHOLD_LOW THEN "skip" ELSE "retrieve"

\* the except block of score_risk_node with a low-risk default
score_risk_fallback_low ==
    [risk_score |-> 1000, recommendation |-> "allow", action_required |-> FALSE]

\* the dict returned by the except block of score_risk_node
score_risk_fallback ==
    [risk_score |-> 5000, recommendation |-> "verify", action_required |-> TRUE]

\* ------------------------------ services/risk_service.py: the GeoIP cache
NumThreads == 2
Threads == 1..NumThreads

\* time.monotonic() is the clock `now`, in units of 1800 s
_GEO_CACHE_TTL == 2
_LOCALHOST_ADDRESSES == {"127.0.0.1", "::1", "0.0.0.0"}

\* the addresses looked up: none, a localhost address, two public addresses
IPs == {"", "127.0.0.1", "8.8.8.8", "1.1.1.1"}
\* the result of a database lookup: a location, or None when the address is
\* not in the database or the lookup fails
Locations == {"None", "Paris, FR", "Lyon, FR"}

\* _geo_cache: for each address, whether the dict holds the key and the
\* tuple (location, expiry) stored under it
NoEntry == [present |-> FALSE, location |-> "None", expiry |-> 0]
EmptyGeoCache == [ip \in IPs |-> NoEntry]

NoGeoCall ==
    [pc |-> "idle", ip |-> "", location |-> "None", result |-> "None",
     raised |-> FALSE]
NoGeoCalls == [t \in Threads |-> NoGeoCall]

\* the freshness test with <= in place of <
is_fresh_inclusive(entry, t) == t <= entry.expiry

\* the freshness test of resolve_ip_location: time.monotonic() < expiry
is_fresh(entry, t) == t < entry.expiry

\* --------------------------------------------- vector_db/pinecone_client.py
\* stop_after_attempt(3) of the retry decorator
MaxConnectAttempts == 3
\* the values of settings.PINECONE_API_KEY and settings.PINECONE_INDEX_NAME:
\* unset, empty, or set
SettingValues == {"None", "", "set"}
\* the outcome of one run of the body of _connect_with_retry: success, a
\* PineconeException, or an exception of another class raised by
\* describe_index_stats after self.index was assigned
ConnectOutcomes == {"ok", "PineconeException", "Exception"}

NoPineconeClient ==
    [pc |-> "none", api_key |-> "None", index_name |-> "None",
     index |-> "None", outcomes |-> <<>>, raised |-> FALSE,
     health |-> "unchecked"]

\* both settings are truthy
pinecone_configured(api_key, index_name) ==
    ~(api_key \in {"None", ""} \/ index_name \in {"None", ""})

\* a retry policy that gives up one attempt later
retry_stops_late(outcomes) == Len(outcomes) >= MaxConnectAttempts + 1

\* the retry policy: stop once MaxConnectAttempts attempts have been made
retry_stops(outcomes) == Len(outcomes) >= MaxConnectAttempts

\* ------------------------------------------------- database/connection.py
MaxWrites == 2
\* the exceptions a request handler raises inside the scope
ScopeExceptions == {"HTTPException", "SQLAlchemyError", "ValueError"}

\* one use of get_db: the session operations in the order they were called
\* (each with its caller), the rows added and not yet committed, the rows
\* committed, the exception thrown into the scope and the one that leaves it
NoDbScope ==
    [pc |-> "none", log |-> <<>>, pending |-> 0, durable |-> 0,
     thrown |-> "", propagated |-> ""]

\* a scope that commits when the request ends without an exception
get_db_exit_committing(exc) ==
    IF exc = "" THEN <<"commit", "close">> ELSE <<"rollback", "close">>

\* get_db after the yield: the session operations of the except and finally
\* blocks, exc being the exception thrown into the generator ("": none)
get_db_exit(exc) ==
    IF exc = "" THEN <<"close">> ELSE <<"rollback", "close">>

\* the effect of a session operation called by `by` on the scope
SessionOp(d, op, by) ==
    [d EXCEPT
        !.log = Append(d.log, [op |-> op, by |-> by]),
        !.pending = IF op = "add" THEN d.pending + 1 ELSE 0,
        !.durable = IF op = "commit" THEN d.durable + d.pending ELSE d.durable]

RECURSIVE SessionOps(_, _, _)
SessionOps(d, ops, by) ==
    IF ops = <<>> THEN d
    ELSE SessionOps(SessionOp(d, Head(ops), by), Tail(ops), by)

\* ------------------------------------------------------------------ Init
NoRiskData == [RiskErrorResponse EXCEPT !.kind = "none"]
NoAssessment == [MfaErrorResponse EXCEPT !.kind = "none"]

Init ==
    /\ now = 0
    /\ users \in [Users -> [mfa_enabled : BOOLEAN,
                            password_hash : {hash_password("pw1")},
                            is_active : {TRUE}, deleted_at : {None}]]
    /\ sessions = <<>>
    /\ events = <<>>
    /\ riskData = NoRiskData
    /\ assessment = NoAssessment
    /\ resp = NoResp
    /\ scoring = NoScoring
    /\ anomaly = NoAnomalyService
    /\ wf = NoWorkflow
    /\ geo_cache = EmptyGeoCache
    /\ geo_calls = NoGeoCalls
    /\ pinecone = NoPineconeClient
    /\ dbscope = NoDbScope

\* --------------------------------------------------------------- actions
\* No request is in progress: the previous response has been delivered.
Idle == resp = NoResp

\* The response is delivered to the client and the request-local values
\* (the risk data and the assessment of a login) are dropped.
Return ==
    /\ resp # NoResp
    /\ resp' = NoResp
    /\ riskData' = NoRiskData
    /\ assessment' = NoAssessment
    /\ UNCHANGED <<now, users, sessions, events, svcVars>>

\* the clock advances
Tick ==
    /\ Idle
    /\ now < MaxTime
    /\ now' = now + 1
    /\ UNCHANGED <<users, sessions, events, riskData, assessment, resp, svcVars>>

\* AuthService.create_access_token / create_refresh_token / create_mfa_token
\* followed by AuthService.create_session
IssueToken(u, ttype, cap) ==
    /\ Idle
    /\ Len(sessions) < cap
    /\ sessions' = Append(sessions,
                     NewSession(Len(sessions) + 1, u, ttype, "None", now))
    /\ resp' = Response("issue_token", NoToken, 200, u)
    /\ UNCHANGED <<now, users, events, riskData, assessment, svcVars>>

\* session.revoke() called on a loaded row (logout, password reset)
SessionRevoke(i) ==
    /\ Idle
    /\ i \in 1..Len(sessions)
    /\ sessions' = [sessions EXCEPT ![i] = revoke(@, now)]
    /\ resp' = [Response("revoke()", NoToken, 0, NoUser) EXCEPT !.id = i]
    /\ UNCHANGED <<now, users, events, riskData, assessment, svcVars>>

\* session.invalidate() called on a loaded row
SessionInvalidate(i) ==
    /\ Idle
    /\ i \in 1..Len(sessions)
    /\ sessions' = [sessions EXCEPT ![i] = invalidate(@, now)]
    /\ resp' = [Response("invalidate()", NoToken, 0, NoUser) EXCEPT !.id = i]
    /\ UNCHANGED <<now, users, events, riskData, assessment, svcVars>>

\* session.refresh_activity() called on a loaded row
SessionRefreshActivity(i) ==
    /\ Idle
    /\ i \in 1..Len(sessions)
    /\ sessions' = [sessions EXCEPT ![i] = refresh_activity(@, now)]
    /\ resp' = [Response("refresh_activity()", NoToken, 0, NoUser) EXCEPT !.id = i]
    /\ UNCHANGED <<now, users, events, riskData, assessment, svcVars>>

\* a lookup by id alone, without the owner filter
find_session_any_owner(session_id, user) == session_id \in 1..Len(sessions)

\* the revoke-one query: filter(id == session_id, user_id == user.id).first()
find_session(session_id, user) ==
    /\ session_id \in 1..Len(sessions)
    /\ sessions[session_id].user_id = user

\* DELETE /sessions/{session_id}
revoke_session(token, session_id) ==
    LET user == get_current_user(token)
        found == find_session(session_id, user)
    IN  /\ Idle
        /\ IF user = NoUser
           THEN /\ resp' = [Response("revoke_session", token, 401, NoUser) EXCEPT !.id = session_id]
                /\ UNCHANGED sessions
           ELSE IF ~found
           THEN /\ resp' = [Response("revoke_session", token, 404, user) EXCEPT !.id = session_id]
                /\ UNCHANGED sessions
           ELSE /\ sessions' = [sessions EXCEPT ![session_id] = revoke(@, now)]
                /\ resp' = [Response("revoke_session", token, 200, user) EXCEPT !.id = session_id]
        /\ UNCHANGED <<now, users, events, riskData, assessment, svcVars>>

\* CookieTokenExtractor.get_access_token(request): the access token of the
\* request, from the access-token cookie or the Authorization header
get_access_token(token, channel) == token

\* the revoke-all query without the jti filter
RevokeAllTargetsNoExclusion(user, current_jti) ==
    {i \in 1..Len(sessions) :
        /\ sessions[i].user_id = user
        /\ sessions[i].is_active = TRUE}

\* the rows selected by the revoke-all query
RevokeAllTargets(user, current_jti) ==
    {i \in 1..Len(sessions) :
        /\ sessions[i].user_id = user
        /\ sessions[i].is_active = TRUE
        /\ sessions[i].jti # current_jti}

\* DELETE /sessions/revoke-all
revoke_all_sessions(token, channel) ==
    LET user == get_current_user(token)
        access_token == get_access_token(token, channel)
        current_jti == verify_token_jti(access_token)
        targets == RevokeAllTargets(user, current_jti)
    IN  /\ Idle
        /\ IF user = NoUser
           THEN /\ resp' = [Response("revoke_all_sessions", token, 401, NoUser)
                              EXCEPT !.action = channel]
                /\ UNCHANGED sessions
           ELSE /\ sessions' = [i \in 1..Len(sessions) |->
                                  IF i \in targets THEN revoke(sessions[i], now)
                                  ELSE sessions[i]]
                /\ resp' = [Response("revoke_all_sessions", token, 200, user)
                              EXCEPT !.action = channel,
                                     !.count = Cardinality(targets)]
        /\ UNCHANGED <<now, users, events, riskData, assessment, svcVars>>

\* create_login_event(**kwargs), called by the login handler
create_login_event(u, fp, known, action, coords) ==
    /\ Idle
    /\ Len(events) < MaxEvents
    /\ events' = Append(events, NewLoginEvent(u, fp, known, action, coords))
    /\ resp' = [Response("create_login_event", NoToken, 0, u)
                  EXCEPT !.id = Len(events) + 1, !.fp = fp, !.action = action]
    /\ UNCHANGED <<now, users, sessions, riskData, assessment, svcVars>>

\* The login path after the password check: RiskBasedAdaptiveMFA.assess_login
\* (user lookup, RiskAssessmentService.assess_login, MFA decision) followed by
\* AdaptiveMFARouter.get_login_response.  fail tells where the assessment
\* fails:
\*   "none"     nowhere
\*   "inner"    an exception inside RiskAssessmentService.assess_login
\*   "wrapper"  an exception inside RiskBasedAdaptiveMFA.assess_login, raised
\*              by the user query
\*   "no_user"  the user query finds no row for the user_id
Login(u, ev, fail) ==
    LET user == users[u]
        inner_runs == fail \in {"none", "inner"}
        risk_data == RiskAssess(ev, u, fail = "inner")
        risk_assessment ==
            IF inner_runs THEN MfaAssess(risk_data, user) ELSE MfaErrorResponse
        direct == IssuesTokensDirectly(risk_assessment, user)
        n == Len(sessions)
        req == [Response("login", NoToken, 200, u) EXCEPT !.action = fail]
    IN  /\ Idle
        /\ n + (IF direct THEN 2 ELSE 1) <= MaxSessions
        /\ riskData' = IF inner_runs THEN risk_data ELSE riskData
        /\ assessment' = risk_assessment
        /\ IF direct
           THEN /\ sessions' = sessions \o
                      << NewSession(n + 1, u, "access",
                                    risk_assessment.device_fingerprint, now),
                         NewSession(n + 2, u, "refresh", "None", now) >>
                /\ resp' = [req EXCEPT !.access_token = n + 1,
                                       !.refresh_token = n + 2,
                                       !.mfa_required = FALSE]
           ELSE /\ sessions' = Append(sessions,
                                  NewSession(n + 1, u, "mfa", "None", now))
                /\ resp' = [req EXCEPT !.mfa_token = n + 1,
                                       !.mfa_required = TRUE,
                                       !.blocked = risk_assessment.blocked]
        /\ UNCHANGED <<now, users, events, svcVars>>

\* a lookup by id alone, without the owner filter
find_login_event_any_owner(login_id, user) == login_id \in 1..Len(events)

\* the feedback query: filter(id == login_id, user_id == user.id).first()
find_login_event(login_id, user) ==
    /\ login_id \in 1..Len(events)
    /\ events[login_id].user_id = user

\* POST /risk/feedback
submit_feedback(token, login_id, action) ==
    LET user == get_current_user(token)
        owned == find_login_event(login_id, user)
        req == [Response("submit_feedback", token, 0, user)
                  EXCEPT !.id = login_id, !.action = action]
    IN  /\ Idle
        /\ IF user = NoUser
           THEN /\ resp' = [req EXCEPT !.status = 401]
                /\ UNCHANGED events
           ELSE IF action \notin {"approved", "blocked", "compromised"}
           THEN /\ resp' = [req EXCEPT !.status = 400]
                /\ UNCHANGED events
           ELSE IF ~owned
           THEN /\ resp' = [req EXCEPT !.status = 404]
                /\ UNCHANGED events
           ELSE /\ events' = [events EXCEPT ![login_id].user_action = action]
                /\ resp' = [req EXCEPT !.status = 200]
        /\ UNCHANGED <<now, users, sessions, riskData, assessment, svcVars>>

\* DELETE /api/user/trusted-devices/{device_fingerprint}
remove_trusted_device(token, device_fingerprint) ==
    LET user == get_current_user(token)
        rows == {i \in 1..Len(events) :
                    /\ events[i].user_id = user
                    /\ events[i].device_fingerprint = device_fingerprint}
        req == [Response("remove_trusted_device", token, 0, user)
                  EXCEPT !.fp = device_fingerprint]
    IN  /\ Idle
        /\ IF user = NoUser
           THEN /\ resp' = [req EXCEPT !.status = 401]
                /\ UNCHANGED events
           ELSE /\ events' = [i \in 1..Len(events) |->
                                IF i \in rows
                                THEN [events[i] EXCEPT !.device_known = FALSE]
                                ELSE events[i]]
                /\ resp' = [req EXCEPT !.status = 200,
                                       !.count = Cardinality(rows)]
        /\ UNCHANGED <<now, users, sessions, riskData, assessment, svcVars>>

\* change-password without the comparison of the new password with its
\* confirmation
change_password_unconfirmed(token, current_password, new_password, new_password_confirm) ==
    LET user == get_current_user(token)
        req == [Response("change_password", token, 0, user)
                  EXCEPT !.args = <<current_password, new_password,
                                    new_password_confirm>>]
    IN  /\ Idle
        /\ IF user = NoUser
           THEN /\ resp' = [req EXCEPT !.status = 401]
                /\ UNCHANGED users
           ELSE IF ~verify_password(current_password, users[user].password_hash)
           THEN /\ resp' = [req EXCEPT !.status = 401]
                /\ UNCHANGED users
           ELSE IF current_password = new_password
           THEN /\ resp' = [req EXCEPT !.status = 400]
                /\ UNCHANGED users
           ELSE /\ users' = [users EXCEPT ![user].password_hash =
                                              hash_password(new_password)]
                /\ resp' = [req EXCEPT !.status = 200]
        /\ UNCHANGED <<now, sessions, events, riskData, assessment, svcVars>>

\* PUT /api/user/change-password
change_password(token, current_password, new_password, new_password_confirm) ==
    LET user == get_current_user(token)
        req == [Response("change_password", token, 0, user)
                  EXCEPT !.args = <<current_password, new_password,
                                    new_password_confirm>>]
    IN  /\ Idle
        /\ IF user = NoUser
           THEN /\ resp' = [req EXCEPT !.status = 401]
                /\ UNCHANGED users
           ELSE IF ~verify_password(current_password, users[user].password_hash)
           THEN /\ resp' = [req EXCEPT !.status = 401]
                /\ UNCHANGED users
           ELSE IF new_password # new_password_confirm
           THEN /\ resp' = [req EXCEPT !.status = 400]
                /\ UNCHANGED users
           ELSE IF current_password = new_password
           THEN /\ resp' = [req EXCEPT !.status = 400]
                /\ UNCHANGED users
           ELSE /\ users' = [users EXCEPT ![user].password_hash =
                                              hash_password(new_password)]
                /\ resp' = [req EXCEPT !.status = 200]
        /\ UNCHANGED <<now, sessions, events, riskData, assessment, svcVars>>

\* POST /api/user/disable-mfa (code_ok: AuthService.verify_mfa_code accepts)
disable_mfa(token, password, code_ok) ==
    LET user == get_current_user(token)
        req == Response("disable_mfa", token, 0, user)
    IN  /\ Idle
        /\ IF user = NoUser
           THEN /\ resp' = [req EXCEPT !.status = 401]
                /\ UNCHANGED users
           ELSE IF ~users[user].mfa_enabled
           THEN /\ resp' = [req EXCEPT !.status = 400]
                /\ UNCHANGED users
           ELSE IF ~verify_password(password, users[user].password_hash)
           THEN /\ resp' = [req EXCEPT !.status = 401]
                /\ UNCHANGED users
           ELSE IF ~code_ok
           THEN /\ resp' = [req EXCEPT !.status = 400]
                /\ UNCHANGED users
           ELSE /\ users' = [users EXCEPT ![user].mfa_enabled = FALSE]
                /\ resp' = [req EXCEPT !.status = 200]
        /\ UNCHANGED <<now, sessions, events, riskData, assessment, svcVars>>

\* delete-account as it would run with a working timestamp expression: the
\* user row is soft-deleted and the bulk update clears is_active, and only
\* is_active, on the user's active sessions
delete_account_soft_deleting(token, password) ==
    LET user == get_current_user(token)
        req == [Response("delete_account", token, 0, user)
                  EXCEPT !.args = <<password>>]
    IN  /\ Idle
        /\ IF user = NoUser
           THEN /\ resp' = [req EXCEPT !.status = 401]
                /\ UNCHANGED <<users, sessions>>
           ELSE IF ~verify_password(password, users[user].password_hash)
           THEN /\ resp' = [req EXCEPT !.status = 401]
                /\ UNCHANGED <<users, sessions>>
           ELSE /\ users' = [users EXCEPT ![user].deleted_at = now,
                                          ![user].is_active = FALSE]
                /\ sessions' = [i \in 1..Len(sessions) |->
                                  IF /\ sessions[i].user_id = user
                                     /\ sessions[i].is_active = TRUE
                                  THEN [sessions[i] EXCEPT !.is_active = FALSE]
                                  ELSE sessions[i]]
                /\ resp' = [req EXCEPT !.status = 200]
        /\ UNCHANGED <<now, events, riskData, assessment, svcVars>>

\* DELETE /api/user/account.  After the password check the handler evaluates
\* datetime.now(datetime.timezone.utc) with `datetime` bound to the class
\* datetime.datetime: AttributeError, caught by the generic handler, which
\* rolls back and answers 500.
delete_account(token, password) ==
    LET user == get_current_user(token)
        req == [Response("delete_account", token, 0, user)
                  EXCEPT !.args = <<password>>]
    IN  /\ Idle
        /\ IF user = NoUser
           THEN resp' = [req EXCEPT !.status = 401]
           ELSE IF ~verify_password(password, users[user].password_hash)
           THEN resp' = [req EXCEPT !.status = 401]
           ELSE resp' = [req EXCEPT !.status = 500]
        /\ UNCHANGED <<now, users, sessions, events, riskData, assessment, svcVars>>

\* GET /sessions/active
get_active_sessions(token) ==
    LET user == get_current_user(token)
        rows == {i \in 1..Len(sessions) :
                    /\ sessions[i].user_id = user
                    /\ sessions[i].is_active = TRUE
                    /\ sessions[i].expires_at > now}
    IN  /\ Idle
        /\ IF user = NoUser
           THEN resp' = Response("get_active_sessions", token, 401, NoUser)
           ELSE resp' = [Response("get_active_sessions", token, 200, user)
                           EXCEPT !.count = Cardinality(rows)]
        /\ UNCHANGED <<now, users, sessions, events, riskData, assessment, svcVars>>

\* GET /api/user/trusted-devices
get_trusted_devices(token) ==
    LET user == get_current_user(token)
        devices == {events[i].device_fingerprint : i \in
                      {j \in 1..Len(events) :
                          /\ events[j].user_id = user
                          /\ events[j].user_action = "approved"
                          /\ events[j].device_known = TRUE}}
    IN  /\ Idle
        /\ IF user = NoUser
           THEN resp' = Response("get_trusted_devices", token, 401, NoUser)
           ELSE resp' = [Response("get_trusted_devices", token, 200, user)
                           EXCEPT !.count = Cardinality(devices)]
        /\ UNCHANGED <<now, users, sessions, events, riskData, assessment, svcVars>>

\* ------------------------------------ routers/sessions_router.py: dashboard
\* .limit(20) of the login-history query of get_full_dashboard
LoginHistoryLimit == 20

\* A completed login of user u from the device "fpA": the login handler
\* records the login event (create_login_event) and issues an access token
\* with its session row (AuthService.create_session)
login_recorded(u) ==
    /\ Idle
    /\ Len(sessions) < MaxDashboardRows
    /\ Len(events) < MaxDashboardRows
    /\ events' = Append(events,
                   NewLoginEvent(u, "fpA", is_device_known(u, "fpA"),
                                 "pending", TRUE))
    /\ sessions' = Append(sessions,
                     NewSession(Len(sessions) + 1, u, "access", "fpA", now))
    /\ resp' = [Response("login_recorded", NoToken, 200, u)
                  EXCEPT !.id = Len(events) + 1]
    /\ UNCHANGED <<now, users, riskData, assessment, svcVars>>

\* GET /sessions/dashboard/full: the rows of the "sessions" and
\* "login_history" lists of the response (args).  The session query has
\* .all(), the login-history query order_by(desc(timestamp)).limit(20).
\* fails: an exception inside the handler, answered 500.
get_full_dashboard(token, fails) ==
    LET user == get_current_user(token)
        active_sessions ==
            {i \in 1..Len(sessions) :
                /\ sessions[i].user_id = user
                /\ sessions[i].is_active = TRUE
                /\ sessions[i].expires_at > now}
        rows == {i \in 1..Len(events) : events[i].user_id = user}
        login_history ==
            {i \in rows : Cardinality({j \in rows : j > i}) < LoginHistoryLimit}
        req == Response("get_full_dashboard", token, 0, user)
    IN  /\ Idle
        /\ IF user = NoUser
           THEN resp' = [req EXCEPT !.status = 401]
           ELSE IF fails
           THEN resp' = [req EXCEPT !.status = 500]
           ELSE resp' = [req EXCEPT !.status = 200,
                                    !.args = <<active_sessions, login_history>>]
        /\ UNCHANGED <<now, users, sessions, events, riskData, assessment, svcVars>>

\* --------------------------------------- routers/sessions_router.py: routes
\* a path segment of a route: a literal, or a path parameter "{name}"
Lit(name) == [param |-> FALSE, name |-> name]
Param(name) == [param |-> TRUE, name |-> name]

\* the routes of the router with prefix "/sessions", in the order of their
\* registration (the path is given without the prefix)
SessionsRoutes ==
    << [method |-> "GET", path |-> <<Lit("dashboard"), Lit("full")>>,
        endpoint |-> "get_full_dashboard"],
       [method |-> "GET", path |-> <<Lit("dashboard"), Lit("overview")>>,
        endpoint |-> "get_dashboard_overview"],
       [method |-> "GET", path |-> <<Lit("active")>>,
        endpoint |-> "get_active_sessions"],
       [method |-> "DELETE", path |-> <<Param("session_id")>>,
        endpoint |-> "revoke_session"],
       [method |-> "DELETE", path |-> <<Lit("revoke-all")>>,
        endpoint |-> "revoke_all_sessions"],
       [method |-> "GET", path |-> <<Lit("history")>>,
        endpoint |-> "get_session_history"],
       [method |-> "GET", path |-> <<Lit("risk-assessment"), Param("event_id")>>,
        endpoint |-> "get_risk_assessment_detail"] >>

Methods == {"GET", "DELETE", "POST"}
\* the segments a request path is made of; "uuidA" and "uuidB" stand for
\* strings in UUID format
PathSegments ==
    {"dashboard", "full", "overview", "active", "revoke-all", "history",
     "risk-assessment", "uuidA", "uuidB"}
\* request paths of one or two segments
RequestPaths ==
    {<<a>> : a \in PathSegments} \cup {<<a, b>> : a, b \in PathSegments}
\* the string parses as a UUID (parameters declared `session_id: UUID`,
\* `event_id: UUID`)
is_uuid(segment) == segment \in {"uuidA", "uuidB"}

\* the path of the request matches the path of the route: a path parameter
\* matches any one segment, whatever its declared type
path_matches(route, path) ==
    /\ Len(route.path) = Len(path)
    /\ \A i \in 1..Len(path) :
          route.path[i].param \/ route.path[i].name = path[i]

\* the routes are tried in the order of registration and the first one that
\* matches path and method handles the request (0: none does)
dispatch(routes, method, path) ==
    LET full == {i \in 1..Len(routes) :
                    path_matches(routes[i], path) /\ routes[i].method = method}
    IN  IF full = {} THEN 0
        ELSE CHOOSE i \in full : \A j \in full : i <= j

\* the values of the path parameters of the matched route are valid
params_valid(route, path) ==
    \A i \in 1..Len(path) : route.path[i].param => is_uuid(path[i])

\* A request to /sessions/<path> is dispatched: the response records the
\* method and the path (args) and the endpoint chosen (action); status 0
\* when the endpoint is called, 422 when a path parameter is rejected, 405
\* when only the method differs, 404 when no route matches
dispatch_request(method, path) ==
    LET i == dispatch(SessionsRoutes, method, path)
        req == [Response("dispatch", NoToken, 0, NoUser)
                  EXCEPT !.args = <<method, path>>]
    IN  /\ Idle
        /\ IF i = 0
           THEN resp' = [req EXCEPT !.status =
                           IF \E j \in 1..Len(SessionsRoutes) :
                                 path_matches(SessionsRoutes[j], path)
                           THEN 405 ELSE 404]
           ELSE resp' = [req EXCEPT
                           !.action = SessionsRoutes[i].endpoint,
                           !.status = IF params_valid(SessionsRoutes[i], path)
                                      THEN 0 ELSE 422]
        /\ UNCHANGED <<now, users, sessions, events, riskData, assessment, svcVars>>

\* ------------------------------------------- scoring functions, applied
\* a call of RiskAssessmentService._combine_signals
CombineSignals(device_known, deviation, ml_score, location_metric) ==
    /\ scoring' = [NoScoring EXCEPT
                     !.op = "_combine_signals",
                     !.device_known = device_known,
                     !.deviation = deviation,
                     !.ml_score = ml_score,
                     !.location_metric = location_metric,
                     !.score = _combine_signals(device_known, deviation,
                                                ml_score, location_metric)]
    /\ UNCHANGED <<appVars, anomaly, wf, geo_cache, geo_calls, pinecone, dbscope>>

\* a call of RiskAssessmentService._map_score_to_level and of
\* RiskAssessmentService.get_risk_level on the same score
MapScoreToLevel(score) ==
    /\ scoring' = [NoScoring EXCEPT
                     !.op = "_map_score_to_level",
                     !.score = score,
                     !.level = _map_score_to_level(score),
                     !.static_level = get_risk_level(score)]
    /\ UNCHANGED <<appVars, anomaly, wf, geo_cache, geo_calls, pinecone, dbscope>>

\* ---------------------------------------------------- the AnomalyService
\* AnomalyService.__init__: a new instance, then load_models
AnomalyServiceInit(load_fails) ==
    /\ anomaly' = load_models(NewAnomalyService(anomaly), load_fails)
    /\ scoring' = [NoScoring EXCEPT
                     !.op = "__init__",
                     !.raised = load_raises(anomaly, load_fails),
                     !.returned = anomaly'.is_trained]
    /\ UNCHANGED <<appVars, wf, geo_cache, geo_calls, pinecone, dbscope>>

\* AnomalyService.train.  enough: at least 10 samples; fit_fails names the
\* step that raises ("features": extract_features or the label lookup,
\* "iso": IsolationForest.fit, "lr": LogisticRegression.fit or score).  The
\* result of save_models is not looked at: train returns True after it.
train(enough, fit_fails, save_fails) ==
    /\ anomaly.constructed
    /\ anomaly' =
          IF ~enough THEN anomaly
          ELSE IF fit_fails = "features"
          THEN [anomaly EXCEPT !.is_trained = FALSE]
          ELSE IF fit_fails = "iso"
          THEN [anomaly EXCEPT !.is_trained = FALSE, !.iso_forest = "unfitted"]
          ELSE IF fit_fails = "lr"
          THEN [anomaly EXCEPT !.is_trained = FALSE, !.iso_forest = "fitted",
                               !.logistic_reg = "unfitted"]
          ELSE save_models([anomaly EXCEPT !.is_trained = TRUE,
                                           !.iso_forest = "fitted",
                                           !.logistic_reg = "fitted"],
                           save_fails)
    /\ scoring' = [NoScoring EXCEPT
                     !.op = "train",
                     !.was_trained = anomaly.is_trained,
                     !.raised = enough /\ fit_fails # "none",
                     !.returned = enough /\ fit_fails = "none"]
    /\ UNCHANGED <<appVars, wf, geo_cache, geo_calls, pinecone, dbscope>>

\* AnomalyService.detect_anomaly on one event.  raises: extract_features or
\* a model call raises; iso, lr: the two scores of the event.  A model that
\* was never fitted raises NotFittedError when asked for a score.
detect_anomaly(raises, iso_normalized, lr_score) ==
    LET neutral == scores_neutral(anomaly)
        fails == \/ raises
                 \/ anomaly.iso_forest # "fitted"
                 \/ anomaly.logistic_reg # "fitted"
    IN  /\ anomaly.constructed
        /\ scoring' = [NoScoring EXCEPT
                         !.op = "detect_anomaly",
                         !.was_trained = anomaly.is_trained,
                         !.raised = ~neutral /\ fails,
                         !.count = 1,
                         !.score = IF neutral \/ fails THEN 50
                                   ELSE (lr_score + iso_normalized) \div 2]
        /\ UNCHANGED <<appVars, anomaly, wf, geo_cache, geo_calls, pinecone, dbscope>>

\* AnomalyService.batch_detect on a list of events; ensemble: the scores the
\* models give to the events
batch_detect(raises, ensemble) ==
    LET n == Len(ensemble)
        fails == \/ raises
                 \/ anomaly.iso_forest # "fitted"
                 \/ anomaly.logistic_reg # "fitted"
    IN  /\ anomaly.constructed
        /\ scoring' = [NoScoring EXCEPT
                         !.op = "batch_detect",
                         !.was_trained = anomaly.is_trained,
                         !.raised = anomaly.is_trained /\ fails,
                         !.count = n,
                         !.scores = IF ~anomaly.is_trained \/ fails
                                    THEN NeutralList(n) ELSE ensemble]
        /\ UNCHANGED <<appVars, anomaly, wf, geo_cache, geo_calls, pinecone, dbscope>>

\* ------------------------------------------------- the LangGraphWorkflow
WfUnchanged ==
    UNCHANGED <<appVars, scoring, anomaly, geo_cache, geo_calls, pinecone, dbscope>>

\* LangGraphWorkflow.invoke is called: the graph starts at its entry point
\* with initial_state
invoke ==
    /\ wf.pc \in {"idle", "returned"}
    /\ wf' = [NoWorkflow EXCEPT !.pc = "detect_anomaly"]
    /\ WfUnchanged

\* detect_anomaly_node, then the edge to score_risk.  raises: the call of
\* the detector raises; score: the value the detector returns
detect_anomaly_node(raises, score) ==
    /\ wf.pc = "detect_anomaly"
    /\ wf' = [wf EXCEPT
                !.state = Merge(wf.state,
                                [anomaly_score |-> IF raises THEN 50 ELSE score]),
                !.trace = Append(wf.trace, "detect_anomaly"),
                !.failed = IF raises THEN wf.failed \cup {"detect_anomaly"}
                           ELSE wf.failed,
                !.pc = "score_risk"]
    /\ WfUnchanged

\* the try block of score_risk_node raises: calculate_risk_score is called
\* with one positional argument too many (TypeError), and get_recommendation
\* is not an attribute of RiskAssessmentService (AttributeError)
score_risk_raises ==
    \/ score_risk_node_args > calculate_risk_score_params
    \/ ~has_get_recommendation

\* the dict score_risk_node returns
score_risk_update(state) ==
    IF score_risk_raises THEN score_risk_fallback
    ELSE LET risk_score == calculate_risk_score(state.anomaly_score, None)
         IN  [risk_score |-> risk_score,
              recommendation |-> state.recommendation,
              action_required |-> (risk_score > RISK_THRESHOLD_HIGH)]

\* score_risk_node, then the conditional edge chosen by should_do_rag
score_risk_node ==
    LET state == Merge(wf.state, score_risk_update(wf.state))
    IN  /\ wf.pc = "score_risk"
        /\ wf' = [wf EXCEPT
                    !.state = state,
                    !.trace = Append(wf.trace, "score_risk"),
                    !.failed = IF score_risk_raises
                               THEN wf.failed \cup {"score_risk"}
                               ELSE wf.failed,
                    !.pc = IF should_do_rag(state) = "retrieve"
                           THEN "retrieve_context"
                           ELSE "generate_explanation"]
        /\ WfUnchanged

\* retrieve_context_node, then the edge to generate_explanation.  raises:
\* the retrieval service raises; cases: the number of cases it returns
retrieve_context_node(raises, cases) ==
    /\ wf.pc = "retrieve_context"
    /\ wf' = [wf EXCEPT
                !.state = Merge(wf.state,
                                [similar_cases |-> IF raises THEN 0 ELSE cases]),
                !.trace = Append(wf.trace, "retrieve_context"),
                !.failed = IF raises THEN wf.failed \cup {"retrieve_context"}
                           ELSE wf.failed,
                !.pc = "generate_explanation"]
    /\ WfUnchanged

\* generate_explanation_node, then the edge to END.  raises: building the
\* prompt or the language-model call raises
generate_explanation_node(raises) ==
    /\ wf.pc = "generate_explanation"
    /\ wf' = [wf EXCEPT
                !.state = Merge(wf.state,
                                [explanation |-> IF raises THEN "fallback"
                                                 ELSE "llm"]),
                !.trace = Append(wf.trace, "generate_explanation"),
                !.failed = IF raises
                           THEN wf.failed \cup {"generate_explanation"}
                           ELSE wf.failed,
                !.pc = "END"]
    /\ WfUnchanged

\* graph.invoke returns the final state and invoke returns its six fields
invoke_returns ==
    /\ wf.pc = "END"
    /\ wf' = [wf EXCEPT !.result = WorkflowResult(wf.state), !.pc = "returned"]
    /\ WfUnchanged

\* graph.invoke raises, between two nodes or after the last one: the except
\* block of invoke returns the default
invoke_fails ==
    /\ wf.pc \in WorkflowNodes \cup {"END"}
    /\ wf' = [wf EXCEPT !.result = WorkflowErrorResult,
                        !.failed = wf.failed \cup {"invoke"},
                        !.pc = "returned"]
    /\ WfUnchanged

\* ---------------------------------- resolve_ip_location, step by step
GeoUnchanged ==
    UNCHANGED <<users, sessions, events, riskData, assessment, resp,
                scoring, anomaly, wf, pinecone, dbscope>>

\* thread t calls resolve_ip_location(ip): an empty address returns None and
\* a localhost address "Localhost" at once
resolve_ip_location(t, ip) ==
    /\ geo_calls[t].pc = "idle"
    /\ geo_calls' =
          [geo_calls EXCEPT ![t] =
              IF ip = ""
              THEN [NoGeoCall EXCEPT !.pc = "done", !.ip = ip]
              ELSE IF ip \in _LOCALHOST_ADDRESSES
              THEN [NoGeoCall EXCEPT !.pc = "done", !.ip = ip,
                                     !.result = "Localhost"]
              ELSE [NoGeoCall EXCEPT !.pc = "get", !.ip = ip]]
    /\ UNCHANGED <<now, geo_cache>>
    /\ GeoUnchanged

\* cached = _geo_cache.get(ip_address) and the test of the expiry: a fresh
\* entry is returned, a stale one is to be deleted, a missing one looked up
geo_cache_get(t) ==
    LET c == geo_calls[t]
        cached == geo_cache[c.ip]
    IN  /\ c.pc = "get"
        /\ geo_calls' =
              [geo_calls EXCEPT ![t] =
                  IF ~cached.present THEN [c EXCEPT !.pc = "lookup"]
                  ELSE IF is_fresh(cached, now)
                  THEN [c EXCEPT !.pc = "done", !.result = cached.location]
                  ELSE [c EXCEPT !.pc = "del"]]
        /\ UNCHANGED <<now, geo_cache>>
        /\ GeoUnchanged

\* del _geo_cache[ip_address]: KeyError when the key is no longer there
geo_cache_del(t) ==
    LET c == geo_calls[t]
    IN  /\ c.pc = "del"
        /\ IF geo_cache[c.ip].present
           THEN /\ geo_cache' = [geo_cache EXCEPT ![c.ip] = NoEntry]
                /\ geo_calls' = [geo_calls EXCEPT ![t].pc = "lookup"]
           ELSE /\ geo_calls' = [geo_calls EXCEPT ![t].pc = "done",
                                                  ![t].raised = TRUE]
                /\ UNCHANGED geo_cache
        /\ UNCHANGED now
        /\ GeoUnchanged

\* the database lookup inside the try block: location is what the reader
\* gives, None when the lookup fails
geo_lookup(t, location) ==
    /\ geo_calls[t].pc = "lookup"
    /\ geo_calls' = [geo_calls EXCEPT ![t].pc = "store",
                                      ![t].location = location]
    /\ UNCHANGED <<now, geo_cache>>
    /\ GeoUnchanged

\* _geo_cache[ip_address] = (location, time.monotonic() + _GEO_CACHE_TTL)
\* and return location
geo_cache_store(t) ==
    LET c == geo_calls[t]
    IN  /\ c.pc = "store"
        /\ geo_cache' = [geo_cache EXCEPT ![c.ip] =
                            [present |-> TRUE, location |-> c.location,
                             expiry |-> now + _GEO_CACHE_TTL]]
        /\ geo_calls' = [geo_calls EXCEPT ![t].pc = "done",
                                          ![t].result = c.location]
        /\ UNCHANGED now
        /\ GeoUnchanged

\* the caller has taken the result (or the exception) of the call
geo_return(t) ==
    /\ geo_calls[t].pc = "done"
    /\ geo_calls' = [geo_calls EXCEPT ![t] = NoGeoCall]
    /\ UNCHANGED <<now, geo_cache>>
    /\ GeoUnchanged

\* ------------------------------------------------------ the PineconeClient
PineconeUnchanged ==
    UNCHANGED <<appVars, scoring, anomaly, wf, geo_cache, geo_calls, dbscope>>

\* PineconeClient.__init__ up to the call of _connect_with_retry: without
\* one of the two settings the constructor returns with index None
PineconeClientInit(api_key, index_name) ==
    /\ pinecone.pc \in {"none", "disabled", "ready", "failed"}
    /\ pinecone' =
          [NoPineconeClient EXCEPT
              !.api_key = api_key, !.index_name = index_name,
              !.pc = IF pinecone_configured(api_key, index_name)
                     THEN "connecting" ELSE "disabled"]
    /\ PineconeUnchanged

\* one attempt of _connect_with_retry.  On success the constructor returns;
\* on a failure the decorator waits and calls again, or, when the policy
\* says stop, raises to the caller of the constructor
_connect_with_retry(outcome) ==
    LET outcomes == Append(pinecone.outcomes, outcome)
        index == IF outcome = "PineconeException" THEN "None" ELSE "index"
    IN  /\ pinecone.pc = "connecting"
        /\ pinecone' =
              [pinecone EXCEPT
                  !.outcomes = outcomes,
                  !.index = index,
                  !.pc = IF outcome = "ok" THEN "ready"
                         ELSE IF retry_stops(outcomes) THEN "failed"
                         ELSE "connecting",
                  !.raised = outcome # "ok" /\ retry_stops(outcomes)]
        /\ PineconeUnchanged

\* PineconeClient.is_healthy on a constructed client.  stats_raises:
\* describe_index_stats raises
is_healthy(stats_raises) ==
    /\ pinecone.pc \in {"disabled", "ready"}
    /\ pinecone' =
          [pinecone EXCEPT
              !.health = IF pinecone.index = "None" THEN "false"
                         ELSE IF stats_raises THEN "false"
                         ELSE "true"]
    /\ PineconeUnchanged

\* ------------------------------------------------------ the get_db scope
DbUnchanged ==
    UNCHANGED <<appVars, scoring, anomaly, wf, geo_cache, geo_calls, pinecone>>

\* get_db up to the yield: db = SessionLocal() is handed to the handler
get_db ==
    /\ dbscope.pc \in {"none", "closed"}
    /\ dbscope' = [NoDbScope EXCEPT !.pc = "open"]
    /\ DbUnchanged

\* the handler adds or changes a row in the session
handler_add ==
    /\ dbscope.pc = "open"
    /\ dbscope.pending + dbscope.durable < MaxWrites
    /\ dbscope' = SessionOp(dbscope, "add", "handler")
    /\ DbUnchanged

\* the handler calls db.commit()
handler_commit ==
    /\ dbscope.pc = "open"
    /\ dbscope.pending > 0
    /\ dbscope' = SessionOp(dbscope, "commit", "handler")
    /\ DbUnchanged

\* the handler returns: the generator is resumed and runs its finally block
get_db_returns ==
    /\ dbscope.pc = "open"
    /\ dbscope' = [SessionOps(dbscope, get_db_exit(""), "get_db")
                     EXCEPT !.pc = "closed"]
    /\ DbUnchanged

\* the handler raises exc: it is thrown into the generator at the yield,
\* the except block rolls back and re-raises, the finally block closes
get_db_raises(exc) ==
    /\ dbscope.pc = "open"
    /\ dbscope' = [SessionOps(dbscope, get_db_exit(exc), "get_db")
                     EXCEPT !.pc = "closed", !.thrown = exc,
                            !.propagated = exc]
    /\ DbUnchanged

\* ------------------------------------------------------- specifications
\* the tokens a client may present (0: none or garbage) and the row ids a
\* request may name (cap + 1: no such row), with cap rows in the table
Tokens(cap) == 0..cap
RowIds(cap) == 1..(cap + 1)
TokenTypes == {"access", "refresh", "mfa"}

\* Session lifecycle: the methods of a Session row and the revocation
\* endpoints, over MaxLifecycleSessions rows
NextLifecycle ==
    \/ Return
    \/ Tick
    \/ \E u \in Users, ttype \in TokenTypes :
          IssueToken(u, ttype, MaxLifecycleSessions)
    \/ \E i \in RowIds(MaxLifecycleSessions) : SessionRevoke(i)
    \/ \E i \in RowIds(MaxLifecycleSessions) : SessionInvalidate(i)
    \/ \E i \in RowIds(MaxLifecycleSessions) : SessionRefreshActivity(i)
    \/ \E token \in Tokens(MaxLifecycleSessions), session_id \in RowIds(MaxLifecycleSessions) :
          revoke_session(token, session_id)
    \/ \E token \in Tokens(MaxLifecycleSessions), channel \in Channels :
          revoke_all_sessions(token, channel)

\* the users of these specifications have not confirmed an MFA setup
InitSessions == Init /\ \A u \in Users : ~users[u].mfa_enabled

SpecLifecycle == InitSessions /\ [][NextLifecycle]_vars

\* Token issuance and the revocation endpoints, over MaxSessions rows
NextSessions ==
    \/ Return
    \/ Tick
    \/ \E u \in Users, ttype \in {"access", "refresh"} :
          IssueToken(u, ttype, MaxSessions)
    \/ \E token \in Tokens(MaxSessions), session_id \in RowIds(MaxSessions) :
          revoke_session(token, session_id)
    \/ \E token \in Tokens(MaxSessions), channel \in Channels :
          revoke_all_sessions(token, channel)

SpecSessions == InitSessions /\ [][NextSessions]_vars

\* The login path: login events, risk assessment, MFA decision, tokens.  The
\* earlier logins all came from the device "fpA"; a login presents any
\* fingerprint or none.
NextLogin ==
    \/ Return
    \/ \E u \in Users, action \in {"pending", "approved"} :
          create_login_event(u, "fpA", is_device_known(u, "fpA"), action, TRUE)
    \/ \E u \in Users, ev \in LoginInputs : Login(u, ev, "none")
    \/ \E u \in Users, fail \in {"inner", "wrapper", "no_user"} :
          Login(u, AnyLoginInput, fail)

\* the odd-numbered users have confirmed an MFA setup, the others have not
InitLogin == Init /\ \A u \in Users : users[u].mfa_enabled = (u % 2 = 1)

SpecLogin == InitLogin /\ [][NextLogin]_vars

\* every user of these specifications has confirmed an MFA setup
InitSettings == Init /\ \A u \in Users : users[u].mfa_enabled

\* The endpoints over the login events: the feedback endpoint and the
\* trusted-device endpoints, with MaxCallers access sessions.  A login event
\* is created with the column default of user_action, "pending".
Next ==
    \/ Return
    \/ \E u \in Users : IssueToken(u, "access", MaxCallers)
    \/ \E u \in Users, fp \in Fingerprints :
          create_login_event(u, fp, is_device_known(u, fp), "pending", TRUE)
    \/ \E token \in Tokens(MaxCallers), login_id \in 1..MaxEvents,
          action \in FeedbackActions :
          submit_feedback(token, login_id, action)
    \/ \E token \in Tokens(MaxCallers), fp \in Fingerprints :
          remove_trusted_device(token, fp)
    \/ \E token \in Tokens(MaxCallers) : get_trusted_devices(token)

Spec == InitSettings /\ [][Next]_vars

\* The account-settings endpoints and the session listing, with MaxCallers
\* access sessions
NextSettings ==
    \/ Return
    \/ Tick
    \/ \E u \in Users : IssueToken(u, "access", MaxCallers)
    \/ \E token \in Tokens(MaxCallers), cur \in Passwords, new \in Passwords,
          confirm \in Passwords :
          change_password(token, cur, new, confirm)
    \/ \E token \in Tokens(MaxCallers), password \in Passwords, code_ok \in BOOLEAN :
          disable_mfa(token, password, code_ok)
    \/ \E token \in Tokens(MaxCallers), password \in Passwords :
          delete_account(token, password)
    \/ \E token \in Tokens(MaxCallers) : get_active_sessions(token)

SpecSettings == InitSettings /\ [][NextSettings]_vars

\* The scoring functions of RiskAssessmentService, applied to arguments
\* drawn from SignalValues, Speeds and Scores
NextScoring ==
    \/ \E device_known \in BOOLEAN, deviation \in SignalValues,
          ml_score \in SignalValues, location_metric \in Speeds :
          CombineSignals(device_known, deviation, ml_score, location_metric)
    \/ \E score \in Scores : MapScoreToLevel(score)

SpecScoring == InitSettings /\ [][NextScoring]_vars

\* The AnomalyService: construction from the model files, training, scoring
NextAnomaly ==
    \/ \E load_fails \in {"none", "iso", "lr"} : AnomalyServiceInit(load_fails)
    \/ \E enough \in BOOLEAN, fit_fails \in {"none", "features", "iso", "lr"},
          save_fails \in {"none", "iso", "lr"} :
          train(enough, fit_fails, save_fails)
    \/ \E raises \in BOOLEAN, iso_normalized \in RawScores, lr_score \in RawScores :
          detect_anomaly(raises, iso_normalized, lr_score)
    \/ \E raises \in BOOLEAN, n \in 0..MaxBatch :
          \E ensemble \in [1..n -> BatchScores] : batch_detect(raises, ensemble)

SpecAnomaly == InitSettings /\ [][NextAnomaly]_vars

\* The explanation workflow: one run of invoke after the other, node by node
NextWorkflow ==
    \/ invoke
    \/ \E raises \in BOOLEAN, score \in AnomalyScores :
          detect_anomaly_node(raises, score)
    \/ score_risk_node
    \/ \E raises \in BOOLEAN, cases \in 0..TopK :
          retrieve_context_node(raises, cases)
    \/ \E raises \in BOOLEAN : generate_explanation_node(raises)
    \/ invoke_returns
    \/ invoke_fails

SpecWorkflow == InitSettings /\ [][NextWorkflow]_vars

\* A run that has started is carried on: the graph executes the node it is
\* at, and invoke returns once the graph has ended or raised
SpecWorkflowLive ==
    /\ SpecWorkflow
    /\ WF_vars(\E raises \in BOOLEAN, score \in AnomalyScores :
                  detect_anomaly_node(raises, score))
    /\ WF_vars(score_risk_node)
    /\ WF_vars(\E raises \in BOOLEAN, cases \in 0..TopK :
                  retrieve_context_node(raises, cases))
    /\ WF_vars(\E raises \in BOOLEAN : generate_explanation_node(raises))
    /\ WF_vars(invoke_returns)

\* The GeoIP cache used by one caller at a time, with the clock
NextGeoCache ==
    \/ Tick
    \/ \E ip \in IPs : resolve_ip_location(1, ip)
    \/ geo_cache_get(1)
    \/ geo_cache_del(1)
    \/ \E location \in Locations : geo_lookup(1, location)
    \/ geo_cache_store(1)
    \/ geo_return(1)

SpecGeoCache == InitSettings /\ [][NextGeoCache]_vars

\* The GeoIP cache used by NumThreads threads that look up the same public
\* address and whose calls interleave statement by statement
NextGeoConcurrent ==
    \/ Tick
    \/ \E t \in Threads : resolve_ip_location(t, "8.8.8.8")
    \/ \E t \in Threads : geo_cache_get(t)
    \/ \E t \in Threads : geo_cache_del(t)
    \/ \E t \in Threads, location \in Locations : geo_lookup(t, location)
    \/ \E t \in Threads : geo_cache_store(t)
    \/ \E t \in Threads : geo_return(t)

SpecGeoConcurrent == InitSettings /\ [][NextGeoConcurrent]_vars

\* The infrastructure around the requests: the vector database client
\* (construction with its retries, health checks) and the scoped database
\* session of one request after the other
NextInfra ==
    \/ \E api_key \in SettingValues, index_name \in SettingValues :
          PineconeClientInit(api_key, index_name)
    \/ \E outcome \in ConnectOutcomes : _connect_with_retry(outcome)
    \/ \E stats_raises \in BOOLEAN : is_healthy(stats_raises)
    \/ get_db
    \/ handler_add
    \/ handler_commit
    \/ get_db_returns
    \/ \E exc \in ScopeExceptions : get_db_raises(exc)

SpecInfra == InitSettings /\ [][NextInfra]_vars

\* The session operations together with account deletion, over MaxCallers
\* session rows
NextAccount ==
    \/ Return
    \/ Tick
    \/ \E u \in Users : IssueToken(u, "access", MaxCallers)
    \/ \E i \in RowIds(MaxCallers) : SessionRevoke(i)
    \/ \E i \in RowIds(MaxCallers) : SessionInvalidate(i)
    \/ \E token \in Tokens(MaxCallers), session_id \in RowIds(MaxCallers) :
          revoke_session(token, session_id)
    \/ \E token \in Tokens(MaxCallers), channel \in Channels :
          revoke_all_sessions(token, channel)
    \/ \E token \in Tokens(MaxCallers), password \in Passwords :
          delete_account(token, password)

SpecAccount == InitSessions /\ [][NextAccount]_vars

\* The dashboard of user 1 after up to MaxDashboardRows logins; a request
\* presents the token of the latest login or none
NextDashboard ==
    \/ Return
    \/ Tick
    \/ login_recorded(1)
    \/ \E token \in {NoToken, Len(sessions)}, fails \in BOOLEAN :
          get_full_dashboard(token, fails)

SpecDashboard == InitSessions /\ [][NextDashboard]_vars

\* Requests to the routes of the sessions router
NextRouting ==
    \/ Return
    \/ \E method \in Methods, path \in RequestPaths : dispatch_request(method, path)

SpecRouting == InitSessions /\ [][NextRouting]_vars

\* ================================================================ claims
SessionIds == 1..Len(sessions)
EventIds == 1..Len(events)

\* C1: a session that has just been created is valid; right after revoke()
\* the session is not valid and its status is "revoked"; a session whose
\* expiry lies in the past is not valid even if it was never revoked or
\* invalidated; and a session is valid exactly when its active flag is set,
\* the clock has not passed expires_at and its status is "active".
C1_SessionLifecycle ==
    /\ resp.op = "issue_token" => is_valid(sessions[Len(sessions)], now)
    /\ resp.op = "revoke()" =>
          /\ ~is_valid(sessions[resp.id], now)
          /\ sessions[resp.id].status = "revoked"
    /\ \A i \in SessionIds :
          /\ now > sessions[i].expires_at => ~is_valid(sessions[i], now)
          /\ is_valid(sessions[i], now) <=>
                (/\ sessions[i].is_active = TRUE
                 /\ now <= sessions[i].expires_at
                 /\ sessions[i].status = "active")

\* C1 witness: a session that was never revoked or invalidated has expired
C1_Witness ==
    \E i \in SessionIds :
        /\ sessions[i].is_active
        /\ sessions[i].status = "active"
        /\ sessions[i].revoked_at = None
        /\ now > sessions[i].expires_at
        /\ ~is_valid(sessions[i], now)

\* C2 (as claimed): a session whose stored status is revoked or invalidated
\* keeps that status and its revocation timestamp in every step.
C2_TerminalStatusIsFinal ==
    [][\A i \in SessionIds :
          sessions[i].status \in {"revoked", "invalidated"} =>
             /\ sessions'[i].status = sessions[i].status
             /\ sessions'[i].revoked_at = sessions[i].revoked_at]_vars

\* C3: when revoke-all-except-current answers 200, the session of the
\* presented access token is still active with status "active", and every
\* other session of the caller that was active before the request is now
\* inactive with status "revoked"; whichever channel carried the token.
C3_RevokeAllKeepsCurrent ==
    [][(resp'.op = "revoke_all_sessions" /\ resp'.status = 200) =>
          /\ resp'.token \in SessionIds
          /\ sessions'[resp'.token].is_active = TRUE
          /\ sessions'[resp'.token].status = "active"
          /\ sessions[resp'.token].user_id = resp'.user
          /\ \A i \in SessionIds \ {resp'.token} :
                (sessions[i].user_id = resp'.user /\ sessions[i].is_active) =>
                    /\ sessions'[i].is_active = FALSE
                    /\ sessions'[i].status = "revoked"]_vars

\* C3 witness: a caller authenticated by the Authorization header has had
\* another session revoked by revoke-all and kept the current one
C3_Witness ==
    /\ resp.op = "revoke_all_sessions"
    /\ resp.status = 200
    /\ resp.action = "header"
    /\ resp.count >= 1
    /\ sessions[resp.token].is_active
    /\ \E i \in SessionIds \ {resp.token} :
          /\ sessions[i].user_id = resp.user
          /\ sessions[i].status = "revoked"
          /\ sessions[i].revoked_at = now

\* the sessions appended by a step
NewSessionIds == {i \in 1..Len(sessions') : i > Len(sessions)}

\* C4: get_login_response issues an access and a refresh token, creates
\* exactly one 'access' and one 'refresh' session and answers mfa_required
\* false if and only if the assessment's risk level is "low" and the user
\* does not have MFA enabled; otherwise it issues only an MFA-intermediate
\* token, creates exactly one 'mfa' session and answers mfa_required true.
C4_DirectTokensIffLowAndNoMfa ==
    [][resp'.op = "login" =>
          /\ SubSeq(sessions', 1, Len(sessions)) = sessions
          /\ IF assessment'.risk_level = "low"
                /\ ~users[resp'.user].mfa_enabled
             THEN /\ Cardinality(NewSessionIds) = 2
                  /\ resp'.access_token \in NewSessionIds
                  /\ resp'.refresh_token \in NewSessionIds
                  /\ sessions'[resp'.access_token].token_type = "access"
                  /\ sessions'[resp'.refresh_token].token_type = "refresh"
                  /\ resp'.mfa_token = NoToken
                  /\ resp'.mfa_required = FALSE
             ELSE /\ Cardinality(NewSessionIds) = 1
                  /\ resp'.mfa_token \in NewSessionIds
                  /\ sessions'[resp'.mfa_token].token_type = "mfa"
                  /\ resp'.access_token = NoToken
                  /\ resp'.refresh_token = NoToken
                  /\ resp'.mfa_required = TRUE
          /\ \A i \in NewSessionIds : sessions'[i].user_id = resp'.user]_vars

\* C4 witness: a login of a user without MFA was assessed low and got
\* access and refresh tokens directly
C4_Witness ==
    /\ resp.op = "login"
    /\ assessment.risk_level = "low"
    /\ ~users[resp.user].mfa_enabled
    /\ resp.access_token # NoToken
    /\ resp.refresh_token # NoToken
    /\ resp.mfa_required = FALSE

\* the fixed safe default: score 0.5, level medium, MFA required
IsSafeDefault(a) ==
    /\ a.risk_score = 5000
    /\ a.risk_level = "medium"
    /\ a.mfa_required = TRUE

C6_FeedbackAuthorization ==
    [][resp'.op = "submit_feedback" =>
          LET valid == resp'.action \in {"approved", "blocked", "compromised"}
              owned == /\ resp'.id \in EventIds
                       /\ events[resp'.id].user_id = resp'.user
          IN  /\ resp'.user = NoUser => (resp'.status = 401 /\ events' = events)
              /\ (resp'.user # NoUser /\ ~valid) =>
                    (resp'.status = 400 /\ events' = events)
              /\ (resp'.user # NoUser /\ valid /\ ~owned) =>
                    (resp'.status = 404 /\ events' = events)
              /\ events' # events =>
                    /\ resp'.user # NoUser /\ valid /\ owned
                    /\ resp'.status = 200
                    /\ events' = [events EXCEPT
                                    ![resp'.id].user_action = resp'.action]]_vars

\* C6 witness: feedback with a valid action on another user's event was
\* answered 404 and the event kept its outcome
C6_Witness ==
    /\ resp.op = "submit_feedback"
    /\ resp.status = 404
    /\ resp.action = "approved"
    /\ resp.id \in EventIds
    /\ resp.user # NoUser
    /\ events[resp.id].user_id # resp.user
    /\ events[resp.id].user_action = "pending"

\* C7 (as claimed): the outcome of every login event is one of pending,
\* approved, denied, mfa_required.
C7_OutcomeInLoginOutcome ==
    \A i \in EventIds : events[i].user_action \in LoginOutcome

\* C8 (as claimed): no step changes a field of an existing login event other
\* than its outcome, no step removes an event, and only the feedback
\* operation changes an outcome.
C8_LoginEventImmutable ==
    [][/\ Len(events') >= Len(events)
       /\ \A i \in EventIds :
             /\ [events'[i] EXCEPT !.user_action = events[i].user_action]
                   = events[i]
             /\ events'[i].user_action # events[i].user_action =>
                   resp'.op = "submit_feedback"]_vars

\* C9: revoke-one by an authenticated caller for a session id that does not
\* exist or belongs to another user answers 404 and changes no session; and
\* neither revoke-one nor revoke-all changes any session of a user other
\* than the caller.
C9_RevocationConfinedToCaller ==
    [][resp'.op \in {"revoke_session", "revoke_all_sessions"} =>
          /\ Len(sessions') = Len(sessions)
          /\ (/\ resp'.op = "revoke_session"
              /\ resp'.user # NoUser
              /\ \/ resp'.id \notin SessionIds
                 \/ sessions[resp'.id].user_id # resp'.user) =>
                (resp'.status = 404 /\ sessions' = sessions)
          /\ \A i \in SessionIds :
                sessions[i].user_id # resp'.user =>
                   sessions'[i] = sessions[i]]_vars

\* C9 witness: revoke-one aimed at an active session of another user was
\* answered 404 and the session is still active
C9_Witness ==
    /\ resp.op = "revoke_session"
    /\ resp.status = 404
    /\ resp.id \in SessionIds
    /\ sessions[resp.id].user_id # resp.user
    /\ sessions[resp.id].is_active
    /\ sessions[resp.id].status = "active"

\* C10: for every non-error assessment of the wrapper, mfa_methods_required
\* is ["totp"] when the user has MFA enabled and the risk score is strictly
\* above 0.3, and empty otherwise.
C10_MfaMethods ==
    (resp.op = "login" /\ assessment.kind = "ok") =>
        assessment.mfa_methods_required =
            IF users[resp.user].mfa_enabled /\ assessment.risk_score > 3000
            THEN <<"totp">> ELSE <<>>

\* C10 witness: a user with MFA enabled was assessed at exactly 0.3 and no
\* method was required
C10_Witness ==
    /\ resp.op = "login"
    /\ assessment.kind = "ok"
    /\ users[resp.user].mfa_enabled
    /\ assessment.risk_score = 3000
    /\ assessment.mfa_methods_required = <<>>

\* C11: for a known or unknown device, a deviation in [0,1], an ml_score in
\* [0,1] and a speed in [0,2000] km/h, _combine_signals returns a score in
\* [0,1] equal to min(1.0, device + behavior + ml + location) with device
\* 0.35 for an unknown device, behavior 0.28*deviation, ml 0.27*ml_score and
\* location 0.10 above 900 km/h, 0.02 above 200 km/h, else 0.
C11_CombineSignals ==
    ( /\ scoring.op = "_combine_signals"
      /\ scoring.deviation \in 0..100
      /\ scoring.ml_score \in 0..100
      /\ scoring.location_metric \in 0..2000 )
    => LET device_factor == IF scoring.device_known THEN 0 ELSE 3500
           behavior_factor == 28 * scoring.deviation
           ml_factor == 27 * scoring.ml_score
           location_factor == IF scoring.location_metric > 900 THEN 1000
                              ELSE IF scoring.location_metric > 200 THEN 200
                              ELSE 0
           total == device_factor + behavior_factor + ml_factor + location_factor
       IN  /\ scoring.score \in 0..10000
           /\ scoring.score = (IF total < 10000 THEN total ELSE 10000)

\* an unknown device at 1000 km/h with full deviation and anomaly: 1.0
C11_Witness ==
    /\ scoring.op = "_combine_signals"
    /\ ~scoring.device_known
    /\ scoring.deviation = 100
    /\ scoring.ml_score = 100
    /\ scoring.location_metric = 1000
    /\ scoring.score = 10000

\* C12: the risk level partitions the scores by the two thresholds: below
\* RISK_THRESHOLD_LOW "low", from RISK_THRESHOLD_LOW and below
\* RISK_THRESHOLD_HIGH "medium", from RISK_THRESHOLD_HIGH "high"; with
\* 0.3/0.7 the scores 0.2, 0.5, 0.9 are low, medium, high; get_risk_level
\* gives the same bucket in upper case.
C12_RiskLevelPartition ==
    scoring.op = "_map_score_to_level"
    => /\ RISK_THRESHOLD_LOW < RISK_THRESHOLD_HIGH
       /\ scoring.level \in {"low", "medium", "high"}
       /\ (scoring.level = "low") <=> (scoring.score < RISK_THRESHOLD_LOW)
       /\ (scoring.level = "medium") <=>
             ( /\ RISK_THRESHOLD_LOW <= scoring.score
               /\ scoring.score < RISK_THRESHOLD_HIGH )
       /\ (scoring.level = "high") <=> (scoring.score >= RISK_THRESHOLD_HIGH)
       /\ scoring.score = 2000 => scoring.level = "low"
       /\ scoring.score = 5000 => scoring.level = "medium"
       /\ scoring.score = 9000 => scoring.level = "high"
       /\ scoring.static_level = upper(scoring.level)

\* a score exactly on the low threshold is classified medium / MEDIUM
C12_Witness ==
    /\ scoring.op = "_map_score_to_level"
    /\ scoring.score = RISK_THRESHOLD_LOW
    /\ scoring.level = "medium"
    /\ scoring.static_level = "MEDIUM"

\* C13: an AnomalyService that is not trained (never trained, or constructed
\* with missing or partial model files) returns exactly 0.5 from
\* detect_anomaly for every event, an exception during scoring also yields
\* 0.5, and batch_detect in the same situations returns one 0.5 per event.
C13_UntrainedScoresNeutral ==
    /\ ( /\ scoring.op = "detect_anomaly"
         /\ (~scoring.was_trained \/ scoring.raised) )
       => scoring.score = 50
    /\ ( /\ scoring.op = "batch_detect"
         /\ (~scoring.was_trained \/ scoring.raised) )
       => /\ Len(scoring.scores) = scoring.count
          /\ \A i \in 1..Len(scoring.scores) : scoring.scores[i] = 50

\* an instance constructed when only the Isolation Forest file exists
\* scores an event
C13_Witness ==
    /\ anomaly.constructed
    /\ anomaly.iso_file = "fitted"
    /\ anomaly.lr_file = "absent"
    /\ anomaly.iso_forest = "unfitted"
    /\ ~anomaly.is_trained
    /\ scoring.op = "detect_anomaly"
    /\ ~scoring.was_trained
    /\ scoring.score = 50

\* the node has run in the current run of the workflow
Ran(node) == \E i \in 1..Len(wf.trace) : wf.trace[i] = node

IsPrefix(p, t) == Len(p) <= Len(t) /\ \A i \in 1..Len(p) : p[i] = t[i]

WorkflowResultOk ==
    wf.pc = "returned"
    => /\ DOMAIN wf.result = {"risk_score", "anomaly_score", "explanation",
                              "similar_cases", "action_required",
                              "recommendation"}
       /\ "invoke" \in wf.failed
          => /\ wf.result.risk_score = 5000
             /\ wf.result.action_required = TRUE
             /\ wf.result.recommendation = "verify"
       /\ "invoke" \notin wf.failed
          => /\ "detect_anomaly" \in wf.failed
                => wf.result.anomaly_score = 50
             /\ "score_risk" \in wf.failed
                => /\ wf.result.risk_score = 5000
                   /\ wf.result.recommendation = "verify"
                   /\ wf.result.action_required = TRUE
             /\ "retrieve_context" \in wf.failed
                => wf.result.similar_cases = 0
             /\ "generate_explanation" \in wf.failed
                => wf.result.explanation = "fallback"

\* C15: every invocation of the workflow terminates and returns a record of
\* the six fields risk_score, anomaly_score, explanation, similar_cases,
\* action_required, recommendation, whatever combination of detector, risk
\* scoring, retrieval and language model fails; a failed step is replaced by
\* its fallback value and a top-level failure returns score 0.5,
\* action_required true, recommendation "verify".
C15_WorkflowTerminates ==
    /\ []WorkflowResultOk
    /\ (wf.pc \in WorkflowNodes \cup {"END"}) ~> (wf.pc = "returned")

\* a run in which all four steps failed has returned
C15_Witness ==
    /\ wf.pc = "returned"
    /\ wf.failed = WorkflowNodes
    /\ wf.result = [risk_score |-> 5000, anomaly_score |-> 50,
                    explanation |-> "fallback", similar_cases |-> 0,
                    action_required |-> TRUE, recommendation |-> "verify"]

\* C16: in the score-risk step, when no external service fails, risk_score
\* is computed from the anomaly score of step 1 by calculate_risk_score and
\* action_required is (risk_score > RISK_THRESHOLD_HIGH); the fallback (0.5,
\* "verify", true) is produced only when the step hits an error.
C16_ScoreRiskFromAnomaly ==
    (Ran("score_risk") /\ wf.failed \subseteq {"score_risk"})
    => /\ wf.state.risk_score = calculate_risk_score(wf.state.anomaly_score, None)
       /\ wf.state.action_required = (wf.state.risk_score > RISK_THRESHOLD_HIGH)

\* C17: the GeoIP cache honours a time-to-live of 3600 s per address.  A
\* lookup of a non-localhost address made before the expiry of its entry
\* returns the stored value (a stored "no location" too) without a database
\* lookup; a lookup made at or after the expiry discards the entry, performs
\* a new lookup and stores the new result with expiry = time + 3600 s;
\* localhost addresses are answered "Localhost" and never enter the cache.
C17_GeoCacheTtl ==
    [][ LET c == geo_calls[1]
            d == geo_calls'[1]
            entry == geo_cache[c.ip]
        IN  d # c =>
            /\ (c.pc = "get" /\ entry.present /\ now < entry.expiry)
               => /\ d.pc = "done"
                  /\ d.result = entry.location
                  /\ ~d.raised
                  /\ geo_cache' = geo_cache
            /\ (c.pc = "get" /\ entry.present /\ now >= entry.expiry)
               => d.pc = "del"
            /\ c.pc = "del"
               => /\ d.pc = "lookup"
                  /\ ~geo_cache'[c.ip].present
            /\ (c.pc = "get" /\ ~entry.present) => d.pc = "lookup"
            /\ c.pc = "lookup" => d.pc = "store"
            /\ c.pc = "store"
               => /\ d.pc = "done"
                  /\ d.result = c.location
                  /\ geo_cache'[c.ip] =
                        [present |-> TRUE, location |-> c.location,
                         expiry |-> now + _GEO_CACHE_TTL]
            /\ \A ip \in IPs :
                  geo_cache'[ip] # geo_cache[ip] => (c.ip = ip /\ c.pc \in {"del", "store"})
            /\ (c.pc = "idle" /\ d.pc # "idle" /\ d.ip \in _LOCALHOST_ADDRESSES)
               => (d.pc = "done" /\ d.result = "Localhost")
            /\ \A ip \in IPs \cap _LOCALHOST_ADDRESSES : ~geo_cache'[ip].present
      ]_vars

\* a lookup made exactly at the expiry of a stored "no location" result is
\* about to discard the entry
C17_Witness ==
    /\ geo_calls[1].pc = "del"
    /\ geo_calls[1].ip = "8.8.8.8"
    /\ geo_cache["8.8.8.8"].present
    /\ geo_cache["8.8.8.8"].location = "None"
    /\ now = geo_cache["8.8.8.8"].expiry

\* C18: concurrent lookups of the same address cost time only.  Under every
\* interleaving of two or more concurrent resolve_ip_location calls for the
\* same uncached or expired address no call raises, each call returns a
\* lookup result for the address, and afterwards the cache holds one entry
\* for the address, with a value produced by one of these lookups.
C18_ConcurrentLookupsSafe ==
    /\ \A t \in Threads : ~geo_calls[t].raised
    /\ \A t \in Threads :
          geo_calls[t].pc = "done" => geo_calls[t].result \in Locations
    /\ (\A t \in Threads : geo_calls[t].pc = "done")
       => /\ geo_cache["8.8.8.8"].present
          /\ \E t \in Threads :
                geo_cache["8.8.8.8"].location = geo_calls[t].result

\* C19: with API key and index name both configured, constructing the
\* vector database client makes at most 3 connection attempts, stops at the
\* first successful attempt leaving a usable index, and raises to the caller
\* of the constructor if all 3 attempts fail; with either setting absent no
\* attempt is made, construction succeeds with index None, and is_healthy()
\* returns false without raising.
C19_PineconeConnect ==
    LET n == Len(pinecone.outcomes)
        configured == pinecone_configured(pinecone.api_key, pinecone.index_name)
    IN  /\ n <= 3
        /\ \A i \in 1..n : pinecone.outcomes[i] = "ok" => i = n
        /\ (pinecone.pc = "ready")
              <=> (n >= 1 /\ pinecone.outcomes[n] = "ok")
        /\ pinecone.pc = "ready" => pinecone.index = "index"
        /\ (pinecone.pc = "failed")
              <=> (n = 3 /\ \A i \in 1..n : pinecone.outcomes[i] # "ok")
        /\ pinecone.raised <=> (pinecone.pc = "failed")
        /\ pinecone.pc \in {"connecting", "ready", "failed"} => configured
        /\ (pinecone.pc # "none" /\ ~configured)
           => /\ n = 0
              /\ pinecone.pc = "disabled"
              /\ pinecone.index = "None"
              /\ pinecone.health # "true"

\* the third attempt succeeded after two failures
C19_Witness ==
    /\ pinecone.pc = "ready"
    /\ Len(pinecone.outcomes) = 3
    /\ pinecone.outcomes[1] # "ok"
    /\ pinecone.outcomes[2] # "ok"
    /\ pinecone.index = "index"

\* the operations get_db itself called on the session
ScopeOps == SelectSeq(dbscope.log, LAMBDA e : e.by = "get_db")

\* C20: for every use of the scoped database session (get_db) the session
\* is closed on exit, whether the scope ends normally or with an exception;
\* after an exception inside the scope the session is rolled back before it
\* is closed and the same exception propagates to the caller; the scope
\* itself never commits, so nothing is committed unless the caller commits.
C20_ScopedSession ==
    /\ \A i \in 1..Len(dbscope.log) :
          dbscope.log[i].op = "commit" => dbscope.log[i].by = "handler"
    /\ dbscope.durable > 0
       => \E i \in 1..Len(dbscope.log) :
             dbscope.log[i] = [op |-> "commit", by |-> "handler"]
    /\ dbscope.pc = "open" => ScopeOps = <<>>
    /\ dbscope.pc = "closed"
       => /\ dbscope.pending = 0
          /\ dbscope.propagated = dbscope.thrown
          /\ dbscope.thrown = ""
             => ScopeOps = << [op |-> "close", by |-> "get_db"] >>
          /\ dbscope.thrown # ""
             => ScopeOps = << [op |-> "rollback", by |-> "get_db"],
                              [op |-> "close", by |-> "get_db"] >>
          /\ dbscope.log[Len(dbscope.log)].op = "close"

\* a handler committed one row, added another and raised: the second row is
\* rolled back, the session closed, the exception propagated
C20_Witness ==
    /\ dbscope.pc = "closed"
    /\ dbscope.durable = 1
    /\ dbscope.pending = 0
    /\ dbscope.propagated = "SQLAlchemyError"
    /\ Len(dbscope.log) = 5
    /\ dbscope.log[3].op = "add"
    /\ dbscope.log[4].op = "rollback"

\* C21: a delete-account request with a valid bearer token and the correct
\* password succeeds, and afterwards the user is soft-deleted (deleted_at
\* set, is_active false, the row still there) and no session of the user has
\* is_active true; with a wrong password the request is rejected with 401
\* and neither the user nor any session changes.
C21_DeleteAccount ==
    [][ (resp'.op = "delete_account" /\ resp'.user # NoUser)
        => LET u == resp'.user
               correct == verify_password(resp'.args[1], users[u].password_hash)
           IN  /\ correct
                  => /\ resp'.status = 200
                     /\ u \in DOMAIN users'
                     /\ users'[u].deleted_at # None
                     /\ users'[u].is_active = FALSE
                     /\ \A i \in 1..Len(sessions') :
                           sessions'[i].user_id = u => ~sessions'[i].is_active
               /\ ~correct
                  => /\ resp'.status = 401
                     /\ users' = users
                     /\ sessions' = sessions
      ]_vars

C23_DashboardLimits ==
    (resp.op = "get_full_dashboard" /\ resp.status = 200)
    => /\ Cardinality(resp.args[1]) <= 20
       /\ Cardinality(resp.args[2]) <= 20
       /\ \A i \in resp.args[1] :
             /\ sessions[i].user_id = resp.user
             /\ sessions[i].is_active
             /\ sessions[i].expires_at > now

\* C24: training persists what it reports.  Whenever AnomalyService.train
\* returns True both model files have been written, so that an
\* AnomalyService constructed afterwards with the same model path has
\* is_trained = true; and a service is trained after loading if and only if
\* both model files were present.
C24_TrainPersists ==
    /\ (scoring.op = "train" /\ scoring.returned)
       => /\ anomaly.iso_file = "fitted"
          /\ anomaly.lr_file = "fitted"
          /\ load_models(NewAnomalyService(anomaly), "none").is_trained
    /\ (scoring.op = "__init__" /\ ~scoring.raised)
       => (anomaly.is_trained
              <=> (anomaly.iso_file # "absent" /\ anomaly.lr_file # "absent"))

\* C25: the two DELETE routes of the sessions group are both reachable: a
\* request DELETE /sessions/revoke-all is dispatched to the
\* revoke-all-except-current handler and is never captured by the route
\* DELETE /sessions/{session_id} registered before it.
C25_RevokeAllReachable ==
    resp.op = "dispatch"
    => /\ resp.args = <<"DELETE", <<"revoke-all">> >>
          => (resp.action = "revoke_all_sessions" /\ resp.status = 0)
       /\ resp.args = <<"DELETE", <<"uuidA">> >>
          => (resp.action = "revoke_session" /\ resp.status = 0)

\* C26: after remove-trusted-device succeeds for fingerprint F of user U the
\* device is no longer trusted anywhere: it is absent from U's
\* trusted-device list, and the next risk assessment of a login by U from F
\* treats the device as unknown (device_factor 0.35), until a new login from
\* F is approved.
C26_RemovedDeviceUntrusted ==
    (resp.op = "remove_trusted_device" /\ resp.status = 200)
    => LET U == resp.user
           F == resp.fp
           next_login == [device_fingerprint |-> F, deviation |-> 0,
                          ml_score |-> 0, has_coords |-> FALSE, speed |-> 0]
           risk_data == RiskAssess(next_login, U, FALSE)
       IN  /\ ~\E i \in 1..Len(events) :
                 /\ events[i].user_id = U
                 /\ events[i].device_fingerprint = F
                 /\ events[i].user_action = "approved"
                 /\ events[i].device_known = TRUE
           /\ ~is_device_known(U, F)
           /\ ~risk_data.device_known
           /\ risk_data.risk_score >= 3500

\* C28: with RISK_THRESHOLD_LOW <= 0.35, a login from a device that has no
\* prior approved login event of the user has a risk score >= 0.35, is never
\* classified "low" and never receives access and refresh tokens directly
\* from the response router; tokens are issued directly only for a known
\* device.
C28_UnknownDeviceNeverLow ==
    /\ RISK_THRESHOLD_LOW <= 3500
    /\ resp.op = "login"
       => /\ ~is_device_known(resp.user, assessment.device_fingerprint)
             => /\ assessment.risk_score >= 3500
                /\ assessment.risk_level # "low"
                /\ resp.access_token = NoToken
                /\ resp.refresh_token = NoToken
          /\ (resp.access_token # NoToken \/ resp.refresh_token # NoToken)
             => /\ assessment.device_known
                /\ is_device_known(resp.user, assessment.device_fingerprint)

\* a user without MFA logs in from a device never approved, with no
\* deviation and no anomaly: the score is 0.35 and an MFA token is issued
C28_Witness ==
    /\ resp.op = "login"
    /\ assessment.kind = "ok"
    /\ ~users[resp.user].mfa_enabled
    /\ ~is_device_known(resp.user, assessment.device_fingerprint)
    /\ assessment.risk_score = 3500
    /\ assessment.risk_level = "medium"
    /\ resp.access_token = NoToken
    /\ resp.mfa_token # NoToken

\* C29: the block flag can be set only together with impossible travel:
\* whenever RiskBasedAdaptiveMFA.assess_login returns blocked = true the
\* assessed location speed exceeds 900 km/h; and a blocked assessment never
\* leads to the direct issuance of access and refresh tokens.
C29_BlockedOnlyWithImpossibleTravel ==
    (resp.op = "login" /\ assessment.blocked)
    => /\ riskData.kind = "ok"
       /\ riskData.location_metric > 900
       /\ resp.access_token = NoToken
       /\ resp.refresh_token = NoToken
       /\ resp.mfa_required
       /\ resp.blocked

\* an unapproved device, full deviation and anomaly score, 1000 km/h since
\* the previous login: score 1.0, blocked
C29_Witness ==
    /\ resp.op = "login"
    /\ assessment.blocked
    /\ assessment.risk_score = 10000
    /\ riskData.location_metric = 1000
    /\ resp.blocked
    /\ resp.mfa_token # NoToken

\* C30: the MFA decision is consistent across the login path: the
\* mfa_required flag of the assessment produced by
\* RiskBasedAdaptiveMFA.assess_login equals the mfa_required flag of the
\* response AdaptiveMFARouter.get_login_response builds from it (an MFA
\* token is issued exactly when the assessment says MFA is required).
C30_MfaDecisionConsistent ==
    resp.op = "login"
    => /\ resp.mfa_required = assessment.mfa_required
       /\ (resp.mfa_token # NoToken) <=> assessment.mfa_required

====
